---- MODULE Spec2Model ----
(***************************************************************************)
(* Personify finance backend: the stored categories, transactions and      *)
(* budgets (finance/models.py), the REST handlers that change them          *)
(* (finance/views.py, finance/serializers.py) and BudgetTrackingService     *)
(* (finance/services.py).                                                   *)
(*                                                                          *)
(* Money is Decimal with two places in the code; here it is an integer      *)
(* number of cents, so Decimal +, - and comparison are integer +, - and     *)
(* comparison.  percentage_used is a float rounded to two places in the     *)
(* code; here it is an integer number of hundredths of a percent.           *)
(***************************************************************************)
EXTENDS Integers, Sequences, FiniteSets, TLC

VARIABLES categories, transactions, budgets, nextTransactionId, nextBudgetId, response,
          users, outbox, requests

vars == <<categories, transactions, budgets, nextTransactionId, nextBudgetId, response,
          users, outbox, requests>>

(***************************************************************************)
(* Bounds of the model.                                                     *)
(***************************************************************************)
MaxTransactions == 2
MaxBudgets == 2
MaxMails == 2

(***************************************************************************)
(* Users, and the pool of categories each of them may create.  None is      *)
(* Python's None (a null foreign key, a missing value).                     *)
(***************************************************************************)
Users == {"u1", "u2"}

None == "None"

CategoryPool == {"c1", "c2", "c3"}

CategoryOwner == [c \in CategoryPool |-> IF c = "c3" THEN "u2" ELSE "u1"]

\* Budget.Meta.ordering sorts the budgets of one month by category name.
CategoryRank == [c \in CategoryPool |-> CASE c = "c1" -> 1 [] c = "c2" -> 2 [] c = "c3" -> 3]

(***************************************************************************)
(* Calendar dates (datetime.date) and calendar.monthrange.                  *)
(***************************************************************************)
Date(y, m, d) == [year |-> y, month |-> m, day |-> d]

DateLE(a, b) ==
    \/ a.year < b.year
    \/ a.year = b.year /\ a.month < b.month
    \/ a.year = b.year /\ a.month = b.month /\ a.day <= b.day

isleap(y) == (y % 4 = 0) /\ ((y % 100 # 0) \/ (y % 400 = 0))

\* Mutant of monthrange: no leap years.
monthrangeNoLeap(y, m) ==
    IF m = 2 THEN 28
    ELSE IF m \in {4, 6, 9, 11} THEN 30 ELSE 31

\* monthrange(year, month)[1]: the number of days of the month.
monthrange(y, m) ==
    IF m = 2 THEN (IF isleap(y) THEN 29 ELSE 28)
    ELSE IF m \in {4, 6, 9, 11} THEN 30 ELSE 31

\* date.today() of the serializers' date validation: the latest date of the model.
Today == Date(2024, 3, 1)

(***************************************************************************)
(* Sum('amount') over a set of stored transactions (ids make them distinct).*)
(***************************************************************************)
RECURSIVE SumAmount(_)
SumAmount(S) ==
    IF S = {} THEN 0
    ELSE LET t == CHOOSE x \in S : TRUE
         IN  t.amount + SumAmount(S \ {t})

(***************************************************************************)
(* float((spent / amount) * 100) and round(percentage_used, 2).             *)
(* The float is compared with 100 and 80: with at most 12 digits in spent   *)
(* and amount the quotient differs from a threshold it does not equal by    *)
(* more than 1e-10, far above the error of a 28-digit Decimal quotient and  *)
(* of a double, so the comparison is the exact one on cents.                *)
(* round(x, 2) is the nearest number of hundredths.                         *)
(***************************************************************************)
PercentAtLeast(spent, amount, p) == 100 * spent >= p * amount

Round2Percent(spent, amount) == (20000 * spent + amount) \div (2 * amount)

(***************************************************************************)
(* BudgetTrackingService.calculate_budget_status                            *)
(***************************************************************************)
MonthStart(b) == Date(b.month.year, b.month.month, 1)

MonthEnd(b) == Date(b.month.year, b.month.month, monthrange(b.month.year, b.month.month))

\* Mutant of BudgetTransactions: no filter on transaction_type.
BudgetTransactionsAnyType(b, txs) ==
    {t \in txs : /\ t.user = b.user
                 /\ t.category = b.category
                 /\ DateLE(MonthStart(b), t.date)
                 /\ DateLE(t.date, MonthEnd(b))}

\* The queryset of transactions whose amounts are summed into spent.
BudgetTransactions(b, txs) ==
    {t \in txs : /\ t.user = b.user
                 /\ t.category = b.category
                 /\ t.transaction_type = "expense"
                 /\ DateLE(MonthStart(b), t.date)
                 /\ DateLE(t.date, MonthEnd(b))}

\* Mutant of StatusOf: the percentage compared without the guard amount > 0.
StatusOfUnguarded(spent, amount) ==
    IF PercentAtLeast(spent, amount, 100) THEN "over_budget"
    ELSE IF PercentAtLeast(spent, amount, 80) THEN "near_limit"
    ELSE "under_budget"

\* percentage_used is 0.0 when amount is 0; the if / elif on it gives the status
\* and the alert level.
StatusOf(spent, amount) ==
    IF amount > 0 /\ PercentAtLeast(spent, amount, 100) THEN "over_budget"
    ELSE IF amount > 0 /\ PercentAtLeast(spent, amount, 80) THEN "near_limit"
    ELSE "under_budget"

AlertLevelOf(spent, amount) ==
    IF amount > 0 /\ PercentAtLeast(spent, amount, 100) THEN "danger"
    ELSE IF amount > 0 /\ PercentAtLeast(spent, amount, 80) THEN "warning"
    ELSE "none"

\* Mutant of RemainingAmount: never below zero.
RemainingAmountClamped(amount, spent) == IF spent > amount THEN 0 ELSE amount - spent

\* remaining = budget.amount - spent
RemainingAmount(amount, spent) == amount - spent

calculate_budget_status(b, txs) ==
    LET spent == SumAmount(BudgetTransactions(b, txs))
        remaining == RemainingAmount(b.amount, spent)
    IN  [budget_id |-> b.id,
         category_id |-> b.category,
         category_name |-> b.category,
         budget_amount |-> b.amount,
         spent_amount |-> spent,
         remaining_amount |-> remaining,
         percentage_used |-> IF b.amount > 0 THEN Round2Percent(spent, b.amount) ELSE 0,
         status |-> StatusOf(spent, b.amount),
         alert_level |-> AlertLevelOf(spent, b.amount),
         month |-> b.month]

(***************************************************************************)
(* Budget.objects.filter(user=user, month=month), in Budget.Meta.ordering.  *)
(***************************************************************************)
\* Mutant of BudgetsOf: the budgets of the month, of any user.
BudgetsOfAnyUser(u, m, bs) == {b \in bs : b.month = m}

BudgetsOf(u, m, bs) == {b \in bs : b.user = u /\ b.month = m}

RECURSIVE OrderByCategory(_)
OrderByCategory(S) ==
    IF S = {} THEN <<>>
    ELSE LET b == CHOOSE x \in S :
                     \A y \in S : <<CategoryRank[x.category], x.id>> = <<CategoryRank[y.category], y.id>>
                                  \/ CategoryRank[x.category] < CategoryRank[y.category]
                                  \/ (CategoryRank[x.category] = CategoryRank[y.category] /\ x.id < y.id)
         IN  <<b>> \o OrderByCategory(S \ {b})

Abs(n) == IF n < 0 THEN -n ELSE n

(***************************************************************************)
(* BudgetTrackingService.get_budget_alerts                                  *)
(***************************************************************************)
AlertFor(b, txs) ==
    LET status == calculate_budget_status(b, txs)
        alert_type == IF status.status = "over_budget" THEN "limit_exceeded"
                      ELSE "approaching_limit"
    IN  [budget_id |-> b.id,
         category_name |-> status.category_name,
         budget_amount |-> status.budget_amount,
         spent_amount |-> status.spent_amount,
         percentage_used |-> status.percentage_used,
         alert_type |-> alert_type,
         \* the message template and the value formatted into it
         message |-> IF alert_type = "limit_exceeded"
                     THEN [template |-> "exceeded", value |-> Abs(status.remaining_amount)]
                     ELSE [template |-> "used", value |-> status.percentage_used],
         month |-> b.month]

\* Mutant of AlertsOver: alerts for the budgets in danger only.
RECURSIVE AlertsOverDangerOnly(_, _)
AlertsOverDangerOnly(seq, txs) ==
    IF seq = <<>> THEN <<>>
    ELSE LET status == calculate_budget_status(Head(seq), txs)
         IN  (IF status.alert_level \in {"danger"}
              THEN <<AlertFor(Head(seq), txs)>> ELSE <<>>)
             \o AlertsOverDangerOnly(Tail(seq), txs)

RECURSIVE AlertsOver(_, _)
AlertsOver(seq, txs) ==
    IF seq = <<>> THEN <<>>
    ELSE LET status == calculate_budget_status(Head(seq), txs)
         IN  (IF status.alert_level \in {"warning", "danger"}
              THEN <<AlertFor(Head(seq), txs)>> ELSE <<>>)
             \o AlertsOver(Tail(seq), txs)

get_budget_alerts(u, m, bs, txs) == AlertsOver(OrderByCategory(BudgetsOf(u, m, bs)), txs)

(***************************************************************************)
(* BudgetTrackingService.get_monthly_budget_summary                         *)
(***************************************************************************)
RECURSIVE SumField(_, _)
SumField(seq, f) ==
    IF seq = <<>> THEN 0 ELSE Head(seq)[f] + SumField(Tail(seq), f)

\* Mutant of CountStatus: the records counted by their reported percentage.
CountStatusByPercentage(seq, st) ==
    Cardinality({i \in 1..Len(seq) :
                    CASE st = "over_budget" -> seq[i].percentage_used >= 10000
                      [] st = "near_limit" -> /\ seq[i].percentage_used >= 8000
                                              /\ seq[i].percentage_used < 10000
                      [] OTHER -> seq[i].percentage_used < 8000})

CountStatus(seq, st) == Cardinality({i \in 1..Len(seq) : seq[i].status = st})

get_monthly_budget_summary(u, m, bs, txs) ==
    LET ordered == OrderByCategory(BudgetsOf(u, m, bs))
        budget_details == [i \in 1..Len(ordered) |-> calculate_budget_status(ordered[i], txs)]
        total_budgeted == SumField(budget_details, "budget_amount")
        total_spent == SumField(budget_details, "spent_amount")
    IN  IF BudgetsOf(u, m, bs) = {}
        THEN [month |-> m,
              total_budgeted |-> 0,
              total_spent |-> 0,
              total_remaining |-> 0,
              overall_percentage_used |-> 0,
              budget_count |-> 0,
              budgets_over_limit |-> 0,
              budgets_near_limit |-> 0,
              budgets_under_limit |-> 0,
              budget_details |-> <<>>]
        ELSE [month |-> m,
              total_budgeted |-> total_budgeted,
              total_spent |-> total_spent,
              total_remaining |-> total_budgeted - total_spent,
              overall_percentage_used |-> IF total_budgeted > 0
                                          THEN Round2Percent(total_spent, total_budgeted)
                                          ELSE 0,
              budget_count |-> Len(budget_details),
              budgets_over_limit |-> CountStatus(budget_details, "over_budget"),
              budgets_near_limit |-> CountStatus(budget_details, "near_limit"),
              budgets_under_limit |-> Cardinality({i \in 1..Len(budget_details) :
                                          budget_details[i].status \notin {"over_budget", "near_limit"}}),
              budget_details |-> budget_details]

(***************************************************************************)
(* BudgetTrackingService.check_transaction_impact_on_budget                 *)
(*                                                                          *)
(* The candidate is a dict of transaction data or a Transaction object:     *)
(* [kind, transaction_type, category, date, amount].  category is a         *)
(* category or None; date and amount are optional values, <<v>> or <<>>     *)
(* (a key the dict lacks, an attribute that is None).  A Transaction object *)
(* has no method get, so `getattr(t, f, None) or t.get(f)` raises           *)
(* AttributeError as soon as the attribute f of an object is falsy.         *)
(***************************************************************************)
Some(v) == <<v>>

Nothing == <<>>

\* Python truth of the three values: None is falsy, and so is Decimal('0').
Missing(t) == t.category = None \/ t.date = Nothing \/ t.amount = Nothing \/ t.amount = Some(0)

Returned(r) == [outcome |-> "return", value |-> r]

Raised(e) == [outcome |-> "raise", exception |-> e]

\* Mutant of ImpactOf: the candidate alone, without the committed spending.
ImpactOfCandidateAlone(b, amount, txs) ==
    LET current_status == calculate_budget_status(b, txs)
        new_spent == amount
        new_remaining == b.amount - new_spent
    IN  [has_impact |-> TRUE,
         budget_id |-> b.id,
         category_name |-> b.category,
         old_spent |-> current_status.spent_amount,
         new_spent |-> new_spent,
         old_remaining |-> current_status.remaining_amount,
         new_remaining |-> new_remaining,
         old_percentage |-> current_status.percentage_used,
         new_percentage |-> IF b.amount > 0 THEN Round2Percent(new_spent, b.amount) ELSE 0,
         status_changed |-> current_status.alert_level # AlertLevelOf(new_spent, b.amount),
         old_alert_level |-> current_status.alert_level,
         new_alert_level |-> AlertLevelOf(new_spent, b.amount),
         budget_amount |-> b.amount]

\* Mutant of ImpactOf: the new alert level is taken from the rounded percentage.
ImpactOfRoundedPercentage(b, amount, txs) ==
    LET current_status == calculate_budget_status(b, txs)
        new_spent == current_status.spent_amount + amount
        new_remaining == b.amount - new_spent
        new_percentage == IF b.amount > 0 THEN Round2Percent(new_spent, b.amount) ELSE 0
        new_alert_level == IF new_percentage >= 10000 THEN "danger"
                           ELSE IF new_percentage >= 8000 THEN "warning"
                           ELSE "none"
    IN  [has_impact |-> TRUE,
         budget_id |-> b.id,
         category_name |-> b.category,
         old_spent |-> current_status.spent_amount,
         new_spent |-> new_spent,
         old_remaining |-> current_status.remaining_amount,
         new_remaining |-> new_remaining,
         old_percentage |-> current_status.percentage_used,
         new_percentage |-> new_percentage,
         status_changed |-> current_status.alert_level # new_alert_level,
         old_alert_level |-> current_status.alert_level,
         new_alert_level |-> new_alert_level,
         budget_amount |-> b.amount]

ImpactOf(b, amount, txs) ==
    LET current_status == calculate_budget_status(b, txs)
        new_spent == current_status.spent_amount + amount
        new_remaining == b.amount - new_spent
    IN  [has_impact |-> TRUE,
         budget_id |-> b.id,
         category_name |-> b.category,
         old_spent |-> current_status.spent_amount,
         new_spent |-> new_spent,
         old_remaining |-> current_status.remaining_amount,
         new_remaining |-> new_remaining,
         old_percentage |-> current_status.percentage_used,
         new_percentage |-> IF b.amount > 0 THEN Round2Percent(new_spent, b.amount) ELSE 0,
         status_changed |-> current_status.alert_level # AlertLevelOf(new_spent, b.amount),
         old_alert_level |-> current_status.alert_level,
         new_alert_level |-> AlertLevelOf(new_spent, b.amount),
         budget_amount |-> b.amount]

check_transaction_impact_on_budget(u, t, bs, txs) ==
    IF t.transaction_type # "expense"
    THEN Returned([has_impact |-> FALSE, message |-> "Transaction is not an expense"])
    ELSE IF t.kind = "object" /\ Missing(t)
    THEN Raised("AttributeError")
    ELSE IF Missing(t)
    THEN Returned([has_impact |-> FALSE, message |-> "Missing required transaction data"])
    ELSE LET transaction_date == t.date[1]
             month_start == Date(transaction_date.year, transaction_date.month, 1)
             found == {b \in bs : b.user = u /\ b.category = t.category /\ b.month = month_start}
         IN  IF found = {}
             THEN Returned([has_impact |-> FALSE,
                            message |-> "No budget found for this category and month"])
             ELSE Returned(ImpactOf(CHOOSE b \in found : TRUE, t.amount[1], txs))

(***************************************************************************)
(* Text.  A str is the sequence of its characters, so that substrings,      *)
(* words and letter case are what they are in the code.                     *)
(***************************************************************************)
Letters ==
    <<"a", "b", "c", "d", "e", "f", "g", "h", "i", "j", "k", "l", "m",
      "n", "o", "p", "q", "r", "s", "t", "u", "v", "w", "x", "y", "z">>

Capitals ==
    <<"A", "B", "C", "D", "E", "F", "G", "H", "I", "J", "K", "L", "M",
      "N", "O", "P", "Q", "R", "S", "T", "U", "V", "W", "X", "Y", "Z">>

Digits == <<"0", "1", "2", "3", "4", "5", "6", "7", "8", "9">>

\* str.lower()
lower(s) ==
    [i \in 1..Len(s) |->
        IF \E k \in 1..26 : Capitals[k] = s[i]
        THEN Letters[CHOOSE k \in 1..26 : Capitals[k] = s[i]]
        ELSE s[i]]

\* needle in hay
In(needle, hay) ==
    \E i \in 0..(Len(hay) - Len(needle)) : \A j \in 1..Len(needle) : hay[i + j] = needle[j]

\* \w of the regular expressions
IsWordChar(ch) ==
    \/ \E k \in 1..26 : Letters[k] = ch \/ Capitals[k] = ch
    \/ \E k \in 1..10 : Digits[k] = ch
    \/ ch = "_"

\* \b between the characters p and p + 1 of s
WordBoundary(s, p) ==
    LET before == p >= 1 /\ IsWordChar(s[p])
        after == p < Len(s) /\ IsWordChar(s[p + 1])
    IN  before # after

\* re.search(r'\b' + re.escape(keyword) + r'\b', s)
WordSearch(keyword, s) ==
    \E i \in 0..(Len(s) - Len(keyword)) :
        /\ \A j \in 1..Len(keyword) : s[i + j] = keyword[j]
        /\ WordBoundary(s, i)
        /\ WordBoundary(s, i + Len(keyword))

\* str.split(): the words between the spaces
RECURSIVE SplitFrom(_, _, _)
SplitFrom(s, i, word) ==
    IF i > Len(s) THEN (IF word = <<>> THEN <<>> ELSE <<word>>)
    ELSE IF s[i] = " "
    THEN (IF word = <<>> THEN <<>> ELSE <<word>>) \o SplitFrom(s, i + 1, <<>>)
    ELSE SplitFrom(s, i + 1, Append(word, s[i]))

split(s) == SplitFrom(s, 1, <<>>)

Min(a, b) == IF a <= b THEN a ELSE b

\* A local variable of the code: Body at the value, which is computed once.
Bind(value, Body(_)) == CHOOSE r \in {Body(x) : x \in {value}} : TRUE

(***************************************************************************)
(* Category.name and Category.description of the categories of the pool:   *)
(* Groceries and Transportation ("Travel and commute expenses") of u1,      *)
(* Utilities of u2.  CategoryRank is the order of the names.                *)
(***************************************************************************)
CategoryName ==
    [c \in CategoryPool |->
        CASE c = "c1" -> <<"G", "r", "o", "c", "e", "r", "i", "e", "s">>
          [] c = "c2" -> <<"T", "r", "a", "n", "s", "p", "o", "r", "t", "a", "t", "i", "o", "n">>
          [] c = "c3" -> <<"U", "t", "i", "l", "i", "t", "i", "e", "s">>]

CategoryDescription ==
    [c \in CategoryPool |->
        IF c = "c2"
        THEN <<"T", "r", "a", "v", "e", "l", " ", "a", "n", "d", " ", "c", "o", "m", "m", "u", "t",
               "e", " ", "e", "x", "p", "e", "n", "s", "e", "s">>
        ELSE <<>>]

(***************************************************************************)
(* CategorySuggestionService.CATEGORY_KEYWORDS, in the order of the dict,   *)
(* and the related words of the name of a category that make it match a     *)
(* type.                                                                    *)
(***************************************************************************)
CATEGORY_KEYWORDS ==
    <<
     [type |-> <<"g", "r", "o", "c", "e", "r", "i", "e", "s">>,
      related |-> <<<<"g", "r", "o", "c", "e", "r", "y">>, <<"g", "r", "o", "c", "e", "r", "i", "e", "s">>, <<"f", "o", "o", "d">>>>,
      keywords |->
        <<<<"g", "r", "o", "c", "e", "r", "y">>,
          <<"g", "r", "o", "c", "e", "r", "i", "e", "s">>,
          <<"s", "u", "p", "e", "r", "m", "a", "r", "k", "e", "t">>,
          <<"w", "a", "l", "m", "a", "r", "t">>,
          <<"t", "a", "r", "g", "e", "t">>,
          <<"c", "o", "s", "t", "c", "o">>,
          <<"s", "a", "f", "e", "w", "a", "y">>,
          <<"k", "r", "o", "g", "e", "r">>,
          <<"w", "h", "o", "l", "e", " ", "f", "o", "o", "d", "s">>,
          <<"t", "r", "a", "d", "e", "r", " ", "j", "o", "e">>,
          <<"m", "a", "r", "k", "e", "t">>,
          <<"s", "t", "o", "r", "e">>,
          <<"f", "o", "o", "d">>,
          <<"p", "r", "o", "d", "u", "c", "e">>,
          <<"m", "i", "l", "k">>,
          <<"b", "r", "e", "a", "d">>,
          <<"s", "h", "o", "p", "p", "i", "n", "g">>>>],
     [type |-> <<"t", "r", "a", "n", "s", "p", "o", "r", "t", "a", "t", "i", "o", "n">>,
      related |-> <<<<"t", "r", "a", "n", "s", "p", "o", "r", "t">>, <<"t", "r", "a", "v", "e", "l">>, <<"c", "o", "m", "m", "u", "t", "e">>>>,
      keywords |->
        <<<<"u", "b", "e", "r">>,
          <<"l", "y", "f", "t">>,
          <<"t", "a", "x", "i">>,
          <<"g", "a", "s">>,
          <<"f", "u", "e", "l">>,
          <<"p", "a", "r", "k", "i", "n", "g">>,
          <<"m", "e", "t", "r", "o">>,
          <<"b", "u", "s">>,
          <<"t", "r", "a", "i", "n">>,
          <<"s", "u", "b", "w", "a", "y">>,
          <<"t", "r", "a", "n", "s", "p", "o", "r", "t">>,
          <<"c", "o", "m", "m", "u", "t", "e">>,
          <<"c", "a", "r">>,
          <<"v", "e", "h", "i", "c", "l", "e">>,
          <<"s", "t", "a", "t", "i", "o", "n">>,
          <<"f", "a", "r", "e">>,
          <<"t", "o", "l", "l">>,
          <<"r", "i", "d", "e">>,
          <<"b", "u", "s", " ", "t", "i", "c", "k", "e", "t">>,
          <<"t", "r", "a", "i", "n", " ", "t", "i", "c", "k", "e", "t">>>>],
     [type |-> <<"d", "i", "n", "i", "n", "g">>,
      related |-> <<<<"d", "i", "n", "i", "n", "g">>, <<"r", "e", "s", "t", "a", "u", "r", "a", "n", "t">>, <<"f", "o", "o", "d">>>>,
      keywords |->
        <<<<"r", "e", "s", "t", "a", "u", "r", "a", "n", "t">>,
          <<"c", "a", "f", "e">>,
          <<"c", "o", "f", "f", "e", "e">>,
          <<"s", "t", "a", "r", "b", "u", "c", "k", "s">>,
          <<"m", "c", "d", "o", "n", "a", "l", "d">>,
          <<"p", "i", "z", "z", "a">>,
          <<"b", "u", "r", "g", "e", "r">>,
          <<"l", "u", "n", "c", "h">>,
          <<"d", "i", "n", "n", "e", "r">>,
          <<"b", "r", "e", "a", "k", "f", "a", "s", "t">>,
          <<"t", "a", "k", "e", "o", "u", "t">>,
          <<"d", "e", "l", "i", "v", "e", "r", "y">>,
          <<"d", "i", "n", "i", "n", "g">>,
          <<"e", "a", "t">>,
          <<"f", "o", "o", "d", " ", "t", "r", "u", "c", "k">>,
          <<"b", "a", "r">>,
          <<"p", "u", "b">>>>],
     [type |-> <<"e", "n", "t", "e", "r", "t", "a", "i", "n", "m", "e", "n", "t">>,
      related |-> <<<<"e", "n", "t", "e", "r", "t", "a", "i", "n", "m", "e", "n", "t">>, <<"f", "u", "n">>, <<"l", "e", "i", "s", "u", "r", "e">>>>,
      keywords |->
        <<<<"m", "o", "v", "i", "e">>,
          <<"c", "i", "n", "e", "m", "a">>,
          <<"t", "h", "e", "a", "t", "e", "r">>,
          <<"n", "e", "t", "f", "l", "i", "x">>,
          <<"s", "p", "o", "t", "i", "f", "y">>,
          <<"g", "a", "m", "e">>,
          <<"g", "a", "m", "i", "n", "g">>,
          <<"c", "o", "n", "c", "e", "r", "t">>,
          <<"s", "h", "o", "w">>,
          <<"m", "o", "v", "i", "e", " ", "t", "i", "c", "k", "e", "t">>,
          <<"e", "n", "t", "e", "r", "t", "a", "i", "n", "m", "e", "n", "t">>,
          <<"f", "u", "n">>,
          <<"p", "a", "r", "k">>,
          <<"m", "u", "s", "e", "u", "m">>,
          <<"z", "o", "o">>,
          <<"b", "e", "a", "c", "h">>,
          <<"r", "e", "c", "r", "e", "a", "t", "i", "o", "n">>>>],
     [type |-> <<"s", "h", "o", "p", "p", "i", "n", "g">>,
      related |-> <<>>,
      keywords |->
        <<<<"a", "m", "a", "z", "o", "n">>,
          <<"e", "b", "a", "y">>,
          <<"o", "n", "l", "i", "n", "e">>,
          <<"p", "u", "r", "c", "h", "a", "s", "e">>,
          <<"b", "u", "y">>,
          <<"s", "h", "o", "p">>,
          <<"m", "a", "l", "l">>,
          <<"s", "t", "o", "r", "e">>,
          <<"r", "e", "t", "a", "i", "l">>,
          <<"c", "l", "o", "t", "h", "i", "n", "g">>,
          <<"s", "h", "o", "e", "s">>,
          <<"e", "l", "e", "c", "t", "r", "o", "n", "i", "c", "s">>>>],
     [type |-> <<"u", "t", "i", "l", "i", "t", "i", "e", "s">>,
      related |-> <<>>,
      keywords |->
        <<<<"e", "l", "e", "c", "t", "r", "i", "c">>,
          <<"e", "l", "e", "c", "t", "r", "i", "c", "i", "t", "y">>,
          <<"w", "a", "t", "e", "r">>,
          <<"g", "a", "s", " ", "b", "i", "l", "l">>,
          <<"i", "n", "t", "e", "r", "n", "e", "t">>,
          <<"p", "h", "o", "n", "e">>,
          <<"c", "a", "b", "l", "e">>,
          <<"u", "t", "i", "l", "i", "t", "y">>,
          <<"b", "i", "l", "l">>,
          <<"s", "e", "r", "v", "i", "c", "e">>>>],
     [type |-> <<"h", "e", "a", "l", "t", "h", "c", "a", "r", "e">>,
      related |-> <<>>,
      keywords |->
        <<<<"d", "o", "c", "t", "o", "r">>,
          <<"h", "o", "s", "p", "i", "t", "a", "l">>,
          <<"p", "h", "a", "r", "m", "a", "c", "y">>,
          <<"m", "e", "d", "i", "c", "a", "l">>,
          <<"h", "e", "a", "l", "t", "h">>,
          <<"d", "e", "n", "t", "i", "s", "t">>,
          <<"c", "l", "i", "n", "i", "c">>,
          <<"m", "e", "d", "i", "c", "i", "n", "e">>,
          <<"p", "r", "e", "s", "c", "r", "i", "p", "t", "i", "o", "n">>,
          <<"i", "n", "s", "u", "r", "a", "n", "c", "e">>>>]
    >>
(***************************************************************************)
(* CategorySuggestionService._calculate_category_score and                  *)
(* _count_keyword_matches.  The score is a float that is a sum of 1.0, 0.5, *)
(* 0.3 and 0.6 + 0.2 * n capped at 1.0; here it is an integer number of     *)
(* tenths (the sums below the cap, 0.3, 0.5, 0.6, 0.8 and 0.3 + 0.3 + 0.3,  *)
(* are the same float whichever way the code reaches them).                 *)
(***************************************************************************)
\* category_matches_type: the if / elif chain on the name of the category.
TypeMatches(entry, category_name_lower) ==
    \/ In(entry.type, category_name_lower)
    \/ \E i \in 1..Len(entry.related) : In(entry.related[i], category_name_lower)

\* The keywords of a type that the description matches: a phrase as a substring,
\* a single word between word boundaries.
KeywordMatches(entry, description_lower) ==
    Cardinality({i \in 1..Len(entry.keywords) :
                    IF In(<<" ">>, entry.keywords[i])
                    THEN In(entry.keywords[i], description_lower)
                    ELSE WordSearch(entry.keywords[i], description_lower)})

RECURSIVE ScoreTypes(_, _, _, _)
ScoreTypes(i, score, category_name_lower, description_lower) ==
    IF i > Len(CATEGORY_KEYWORDS) THEN score
    ELSE Bind(IF TypeMatches(CATEGORY_KEYWORDS[i], category_name_lower)
              THEN KeywordMatches(CATEGORY_KEYWORDS[i], description_lower)
              ELSE 0,
              LAMBDA keyword_matches :
                  Bind(IF keyword_matches > 0
                       THEN Min(score + 6 + keyword_matches * 2, 10)
                       ELSE score,
                       LAMBDA next_score :
                           ScoreTypes(i + 1, next_score, category_name_lower,
                                      description_lower)))

\* Mutant of ScoreWords: words of any length count.
RECURSIVE ScoreWordsAnyLength(_, _, _, _)
ScoreWordsAnyLength(words, n, step, description_lower) ==
    IF words = <<>> THEN 0
    ELSE (IF In(Head(words), description_lower) THEN step ELSE 0)
         + ScoreWordsAnyLength(Tail(words), n, step, description_lower)

\* for word in words: if len(word) > n and word in description_lower: score += step
RECURSIVE ScoreWords(_, _, _, _)
ScoreWords(words, n, step, description_lower) ==
    IF words = <<>> THEN 0
    ELSE (IF Len(Head(words)) > n /\ In(Head(words), description_lower) THEN step ELSE 0)
         + ScoreWords(Tail(words), n, step, description_lower)

\* The score of a category object, a record of its name and description.
ScoreOfCategory(category, description_lower) ==
    Bind(lower(category.name),
         LAMBDA category_name_lower :
             LET name_match == IF In(category_name_lower, description_lower) THEN 10 ELSE 0
                 with_types ==
                     ScoreTypes(1, name_match, category_name_lower, description_lower)
                 with_name_words ==
                     with_types + ScoreWords(split(category_name_lower), 2, 5,
                                             description_lower)
                 with_description ==
                     IF category.description # <<>>
                     THEN with_name_words
                          + ScoreWords(split(lower(category.description)), 3, 3,
                                       description_lower)
                     ELSE with_name_words
             IN  Min(with_description, 10))

_calculate_category_score(c, description_lower) ==
    ScoreOfCategory([name |-> CategoryName[c], description |-> CategoryDescription[c]],
                    description_lower)

RECURSIVE CountTypes(_, _, _)
CountTypes(i, category_name_lower, description_lower) ==
    IF i > Len(CATEGORY_KEYWORDS) THEN 0
    ELSE (IF TypeMatches(CATEGORY_KEYWORDS[i], category_name_lower)
          THEN KeywordMatches(CATEGORY_KEYWORDS[i], description_lower)
          ELSE 0)
         + CountTypes(i + 1, category_name_lower, description_lower)

_count_keyword_matches(c, description_lower) ==
    Bind(lower(CategoryName[c]),
         LAMBDA category_name_lower : CountTypes(1, category_name_lower, description_lower))

(***************************************************************************)
(* CategorySuggestionService.suggest_category.  Category.objects.filter     *)
(* gives the categories of the user in Category.Meta.ordering, by name.     *)
(***************************************************************************)
RECURSIVE OrderByName(_)
OrderByName(S) ==
    IF S = {} THEN <<>>
    ELSE LET c == CHOOSE x \in S : \A y \in S : CategoryRank[x] <= CategoryRank[y]
         IN  <<c>> \o OrderByName(S \ {c})

CategoriesOf(u, cats) == OrderByName({c \in cats : CategoryOwner[c] = u})

\* Mutant of CategoryScores: the categories that score 0 are kept.
RECURSIVE CategoryScoresWithZero(_, _)
CategoryScoresWithZero(seq, description_lower) ==
    IF seq = <<>> THEN <<>>
    ELSE Bind(_calculate_category_score(Head(seq), description_lower),
              LAMBDA score :
                  (IF score >= 0 THEN <<[category |-> Head(seq), score |-> score]>>
                   ELSE <<>>)
                  \o CategoryScoresWithZero(Tail(seq), description_lower))

\* The categories of seq that score more than 0, in their order, with their scores.
RECURSIVE CategoryScores(_, _)
CategoryScores(seq, description_lower) ==
    IF seq = <<>> THEN <<>>
    ELSE Bind(_calculate_category_score(Head(seq), description_lower),
              LAMBDA score :
                  (IF score > 0 THEN <<[category |-> Head(seq), score |-> score]>>
                   ELSE <<>>)
                  \o CategoryScores(Tail(seq), description_lower))

RECURSIVE MaxScore(_)
MaxScore(scores) ==
    IF Len(scores) = 1 THEN scores[1].score
    ELSE Bind(MaxScore(Tail(scores)),
              LAMBDA rest : IF scores[1].score >= rest THEN scores[1].score ELSE rest)

RECURSIVE TiedCategories(_, _)
TiedCategories(scores, max_score) ==
    IF scores = <<>> THEN <<>>
    ELSE (IF Head(scores).score = max_score THEN <<Head(scores).category>> ELSE <<>>)
         \o TiedCategories(Tail(scores), max_score)

\* Mutant of BestByKeywords: the last of the tied categories with the most keywords.
RECURSIVE BestByKeywordsLast(_, _, _, _)
BestByKeywordsLast(tied, best_category, best_keyword_count, description_lower) ==
    IF tied = <<>> THEN best_category
    ELSE Bind(_count_keyword_matches(Head(tied), description_lower),
              LAMBDA keyword_count :
                  IF keyword_count >= best_keyword_count
                  THEN BestByKeywordsLast(Tail(tied), Head(tied), keyword_count,
                                          description_lower)
                  ELSE BestByKeywordsLast(Tail(tied), best_category, best_keyword_count,
                                            description_lower))

\* The loop over tied_categories: a category replaces the best one when it matches
\* strictly more keywords.
RECURSIVE BestByKeywords(_, _, _, _)
BestByKeywords(tied, best_category, best_keyword_count, description_lower) ==
    IF tied = <<>> THEN best_category
    ELSE Bind(_count_keyword_matches(Head(tied), description_lower),
              LAMBDA keyword_count :
                  IF keyword_count > best_keyword_count
                  THEN BestByKeywords(Tail(tied), Head(tied), keyword_count, description_lower)
                  ELSE BestByKeywords(Tail(tied), best_category, best_keyword_count,
                                        description_lower))

\* Mutant of LowerDescription: the description as it is.
DescriptionAsGiven(description) == description

\* description_lower = description.lower()
LowerDescription(description) == lower(description)

\* The end of suggest_category: the only category of the highest score, or the best
\* of the tied ones by keywords, or the first of them.
BestOf(category_scores, description_lower) ==
    Bind(TiedCategories(category_scores, MaxScore(category_scores)),
         LAMBDA tied_categories :
             IF Len(tied_categories) = 1 THEN tied_categories[1]
             ELSE Bind(BestByKeywords(tied_categories, None, 0, description_lower),
                       LAMBDA best_category :
                           IF best_category # None THEN best_category
                           ELSE tied_categories[1]))

SuggestFrom(user_categories, description) ==
    IF description = <<>> THEN None
    ELSE Bind(LowerDescription(description),
              LAMBDA description_lower :
                  Bind(CategoryScores(user_categories, description_lower),
                       LAMBDA category_scores :
                           IF category_scores = <<>> THEN None
                           ELSE BestOf(category_scores, description_lower)))

suggest_category(u, description, cats) ==
    Bind(CategoriesOf(u, cats),
         LAMBDA user_categories : SuggestFrom(user_categories, description))
(***************************************************************************)
(* CategorySuggestionService._calculate_description_similarity: the words   *)
(* the two descriptions share over the words of either, a fraction          *)
(* [num, den] (den is 0 when a description has no word: the result 0.0).    *)
(***************************************************************************)
Words(s) == Bind(split(lower(s)), LAMBDA words : {words[i] : i \in 1..Len(words)})

_calculate_description_similarity(desc1, desc2) ==
    Bind(<<Words(desc1), Words(desc2)>>,
         LAMBDA words :
             IF words[1] = {} \/ words[2] = {} THEN [num |-> 0, den |-> 1]
             ELSE [num |-> Cardinality(words[1] \cap words[2]),
                   den |-> Cardinality(words[1] \cup words[2])])

\* re.findall(r'\w+', s): the longest runs of word characters
RECURSIVE FindAllWordsFrom(_, _, _)
FindAllWordsFrom(s, i, word) ==
    IF i > Len(s) THEN (IF word = <<>> THEN <<>> ELSE <<word>>)
    ELSE IF ~ IsWordChar(s[i])
    THEN (IF word = <<>> THEN <<>> ELSE <<word>>) \o FindAllWordsFrom(s, i + 1, <<>>)
    ELSE FindAllWordsFrom(s, i + 1, Append(word, s[i]))

\* BudgetTrackingService._calculate_description_similarity, which no code calls: the
\* same fraction over the sets of the runs of word characters.
BudgetTrackingDescriptionSimilarity(desc1, desc2) ==
    Bind(<<FindAllWordsFrom(desc1, 1, <<>>), FindAllWordsFrom(desc2, 1, <<>>)>>,
         LAMBDA found :
             LET words1 == {found[1][i] : i \in 1..Len(found[1])}
                 words2 == {found[2][i] : i \in 1..Len(found[2])}
             IN  IF words1 = {} \/ words2 = {} THEN [num |-> 0, den |-> 1]
                 ELSE [num |-> Cardinality(words1 \cap words2),
                       den |-> Cardinality(words1 \cup words2)])

FractionAdd(a, b) == [num |-> a.num * b.den + b.num * a.den, den |-> a.den * b.den]

FractionLess(a, b) == a.num * b.den < b.num * a.den

(***************************************************************************)
(* CategorySuggestionService.suggest_category_with_history.  The            *)
(* transactions come in Transaction.Meta.ordering, the latest date and then *)
(* the latest created (the greatest id) first.                              *)
(***************************************************************************)
RECURSIVE OrderByDate(_)
OrderByDate(S) ==
    IF S = {} THEN <<>>
    ELSE LET t == CHOOSE x \in S :
                     \A y \in S : \/ x = y
                                  \/ ~ DateLE(x.date, y.date)
                                  \/ (x.date = y.date /\ x.id > y.id)
         IN  <<t>> \o OrderByDate(S \ {t})

\* Mutant of CounterAdd: a category keeps the greatest of its similarities.
CounterKeepsGreatest(counter, c, similarity) ==
    IF \E i \in 1..Len(counter) : counter[i].category = c
    THEN [i \in 1..Len(counter) |->
             IF counter[i].category = c /\ FractionLess(counter[i].score, similarity)
             THEN [counter[i] EXCEPT !.score = similarity]
             ELSE counter[i]]
    ELSE Append(counter, [category |-> c, score |-> similarity])

\* category_scores[transaction.category] += similarity_score, a Counter in the
\* order of its first insertions: a sequence of [category, score].
CounterAdd(counter, c, similarity) ==
    IF \E i \in 1..Len(counter) : counter[i].category = c
    THEN [i \in 1..Len(counter) |->
             IF counter[i].category = c
             THEN [counter[i] EXCEPT !.score = FractionAdd(counter[i].score, similarity)]
             ELSE counter[i]]
    ELSE Append(counter, [category |-> c, score |-> similarity])

RECURSIVE SimilarityScores(_, _, _)
SimilarityScores(seq, counter, description_lower) ==
    IF seq = <<>> THEN counter
    ELSE Bind(_calculate_description_similarity(description_lower,
                                                lower(Head(seq).description)),
              LAMBDA similarity_score :
                  Bind(IF 10 * similarity_score.num > 3 * similarity_score.den
                       THEN CounterAdd(counter, Head(seq).category, similarity_score)
                       ELSE counter,
                       LAMBDA next_counter :
                           SimilarityScores(Tail(seq), next_counter, description_lower)))

\* Counter.most_common(1)[0][0]: the first of the categories of the greatest score.
RECURSIVE MostCommon(_)
MostCommon(counter) ==
    IF Len(counter) = 1 THEN counter[1]
    ELSE Bind(MostCommon(Tail(counter)),
              LAMBDA rest :
                  IF FractionLess(counter[1].score, rest.score) THEN rest ELSE counter[1])

\* Mutant of SimilarTransactions: the categorized transactions of every user.
SimilarTransactionsAnyUser(u, txs) == {t \in txs : t.category # None}

SimilarTransactions(u, txs) == {t \in txs : t.user = u /\ t.category # None}

\* The historical pattern matching of suggest_category_with_history.
SuggestFromHistory(similar_transactions, description_lower) ==
    Bind(SimilarityScores(similar_transactions, <<>>, description_lower),
         LAMBDA category_scores :
             IF category_scores # <<>> THEN MostCommon(category_scores).category ELSE None)

\* Mutant of suggest_category_with_history: the history is asked first.
HistoryBeforeKeywords(u, description, cats, txs) ==
    Bind(SuggestFromHistory(OrderByDate(SimilarTransactions(u, txs)), lower(description)),
         LAMBDA from_history :
             IF from_history # None THEN from_history
             ELSE suggest_category(u, description, cats))

suggest_category_with_history(u, description, cats, txs) ==
    Bind(suggest_category(u, description, cats),
         LAMBDA keyword_suggestion :
             IF keyword_suggestion # None THEN keyword_suggestion
             ELSE Bind(<<OrderByDate(SimilarTransactions(u, txs)), lower(description)>>,
                       LAMBDA v : SuggestFromHistory(v[1], v[2])))

(***************************************************************************)
(* CategorySuggestionService.get_category_suggestions_for_user.  The        *)
(* uncategorized transactions come by date, the latest first (here those of *)
(* one date by id), and the first limit * 2 of them are looked at.          *)
(***************************************************************************)
RECURSIVE OrderByDateOnly(_)
OrderByDateOnly(S) ==
    IF S = {} THEN <<>>
    ELSE LET t == CHOOSE x \in S :
                     \A y \in S : \/ x = y
                                  \/ ~ DateLE(x.date, y.date)
                                  \/ (x.date = y.date /\ x.id < y.id)
         IN  <<t>> \o OrderByDateOnly(S \ {t})

RECURSIVE SuggestionsOver(_, _, _, _, _)
SuggestionsOver(seq, u, limit, cats, txs) ==
    IF seq = <<>> \/ limit <= 0 THEN <<>>
    ELSE Bind(<<Head(seq), Tail(seq),
                suggest_category_with_history(u, Head(seq).description, cats, txs)>>,
              LAMBDA v :
                  LET transaction == v[1]
                      suggested_category == v[3]
                  IN  IF suggested_category # None
                      THEN <<[transaction_id |-> transaction.id,
                              transaction_description |-> transaction.description,
                              transaction_amount |-> transaction.amount,
                              transaction_date |-> transaction.date,
                              suggested_category |->
                                  [id |-> suggested_category,
                                   name |-> CategoryName[suggested_category],
                                   description |-> CategoryDescription[suggested_category]]]>>
                           \o SuggestionsOver(v[2], u, limit - 1, cats, txs)
                      ELSE SuggestionsOver(v[2], u, limit, cats, txs))

\* Mutant of get_category_suggestions_for_user: every uncategorized transaction is
\* looked at.
SuggestionsOverAll(u, limit, cats, txs) ==
    Bind(OrderByDateOnly({t \in txs : t.user = u /\ t.category = None}),
         LAMBDA ordered : SuggestionsOver(ordered, u, limit, cats, txs))

get_category_suggestions_for_user(u, limit, cats, txs) ==
    Bind(OrderByDateOnly({t \in txs : t.user = u /\ t.category = None}),
         LAMBDA ordered :
             SuggestionsOver(SubSeq(ordered, 1, Min(Len(ordered), limit * 2)), u, limit,
                             cats, txs))

(***************************************************************************)
(* The registered users: CustomUser.id, email, username (create_user gives  *)
(* the email as username), is_email_verified and the password set_password  *)
(* stored.                                                                  *)
(***************************************************************************)
UserId == [u \in Users |-> IF u = "u1" THEN 1 ELSE 2]

Email == [u \in Users |-> IF u = "u1" THEN <<"a", "@", "x">> ELSE <<"b", "@", "x">>]

(***************************************************************************)
(* The stored state after the migrations and the registration of the two    *)
(* users: no category, transaction or budget, no mail sent, no request in   *)
(* progress.  response is the response to the latest request.               *)
(***************************************************************************)
RequestIds == {"r1", "r2"}

Init ==
    /\ categories = {}
    /\ transactions = {}
    /\ budgets = {}
    /\ nextTransactionId = 1
    /\ nextBudgetId = 1
    /\ response = [op |-> "none", status |-> 0]
    /\ users = [u \in Users |-> [id |-> UserId[u], email |-> Email[u], username |-> Email[u],
                                  is_email_verified |-> FALSE, password |-> "initial"]]
    /\ outbox = <<>>
    /\ requests = [r \in RequestIds |-> [pc |-> "idle"]]

Status(op, code) == [op |-> op, status |-> code]

(***************************************************************************)
(* CategoryViewSet.create: a category of the pool, for the requester.  A    *)
(* second category of the same name is rejected (validate_name).            *)
(***************************************************************************)
CategoryCreate(u, c) ==
    /\ CategoryOwner[c] = u
    /\ IF c \in categories
       THEN /\ response' = Status("category_create", 400)
            /\ UNCHANGED categories
       ELSE /\ categories' = categories \cup {c}
            /\ response' = Status("category_create", 201)
    /\ UNCHANGED <<transactions, budgets, nextTransactionId, nextBudgetId, users, outbox, requests>>

(***************************************************************************)
(* TransactionSerializer: validate_amount, validate_category (the primary   *)
(* key must name a stored category, and it must be the requester's) and     *)
(* validate_date.                                                           *)
(***************************************************************************)
TransactionDataValid(u, data) ==
    /\ data.amount > 0
    /\ data.category # None => (data.category \in categories /\ CategoryOwner[data.category] = u)
    /\ DateLE(data.date, Today)

(***************************************************************************)
(* TransactionViewSet.create, update and destroy.                           *)
(***************************************************************************)
TransactionCreate(u, data) ==
    /\ nextTransactionId <= MaxTransactions
    /\ IF TransactionDataValid(u, data)
       THEN /\ transactions' = transactions \cup
                   {[id |-> nextTransactionId, user |-> u, category |-> data.category,
                     transaction_type |-> data.transaction_type, date |-> data.date,
                     amount |-> data.amount, description |-> data.description]}
            /\ nextTransactionId' = nextTransactionId + 1
            /\ response' = Status("transaction_create", 201)
       ELSE /\ response' = Status("transaction_create", 400)
            /\ UNCHANGED <<transactions, nextTransactionId>>
    /\ UNCHANGED <<categories, budgets, nextBudgetId, users, outbox, requests>>

TransactionUpdate(u, id, data) ==
    /\ \E t \in transactions :
          /\ t.id = id
          /\ IF t.user # u
             THEN /\ response' = Status("transaction_update", 404)
                  /\ UNCHANGED transactions
             ELSE IF TransactionDataValid(u, data)
             THEN /\ transactions' = (transactions \ {t}) \cup
                         {[t EXCEPT !.category = data.category,
                                    !.transaction_type = data.transaction_type,
                                    !.date = data.date,
                                    !.amount = data.amount,
                                    !.description = data.description]}
                  /\ response' = Status("transaction_update", 200)
             ELSE /\ response' = Status("transaction_update", 400)
                  /\ UNCHANGED transactions
    /\ UNCHANGED <<categories, budgets, nextTransactionId, nextBudgetId, users, outbox, requests>>

TransactionDestroy(u, id) ==
    /\ \E t \in transactions :
          /\ t.id = id
          /\ IF t.user # u
             THEN /\ response' = Status("transaction_destroy", 404)
                  /\ UNCHANGED transactions
             ELSE /\ transactions' = transactions \ {t}
                  /\ response' = Status("transaction_destroy", 204)
    /\ UNCHANGED <<categories, budgets, nextTransactionId, nextBudgetId, users, outbox, requests>>

(***************************************************************************)
(* BudgetSerializer: validate_amount, validate_category, validate_month and *)
(* validate (no other budget of the requester for the category and month).  *)
(***************************************************************************)
BudgetDataValid(u, data, instance) ==
    /\ data.amount > 0
    /\ data.category \in categories
    /\ CategoryOwner[data.category] = u
    /\ data.month.day = 1
    /\ ~ \E b \in budgets : /\ b.user = u
                            /\ b.category = data.category
                            /\ b.month = data.month
                            /\ b.id # instance

(***************************************************************************)
(* BudgetViewSet.create, update and destroy.                                *)
(***************************************************************************)
BudgetCreate(u, data) ==
    /\ nextBudgetId <= MaxBudgets
    /\ IF BudgetDataValid(u, data, 0)
       THEN /\ budgets' = budgets \cup
                   {[id |-> nextBudgetId, user |-> u, category |-> data.category,
                     amount |-> data.amount, month |-> data.month]}
            /\ nextBudgetId' = nextBudgetId + 1
            /\ response' = Status("budget_create", 201)
       ELSE /\ response' = Status("budget_create", 400)
            /\ UNCHANGED <<budgets, nextBudgetId>>
    /\ UNCHANGED <<categories, transactions, nextTransactionId, users, outbox, requests>>

BudgetUpdate(u, id, data) ==
    /\ \E b \in budgets :
          /\ b.id = id
          /\ IF b.user # u
             THEN /\ response' = Status("budget_update", 404)
                  /\ UNCHANGED budgets
             ELSE IF BudgetDataValid(u, data, id)
             THEN /\ budgets' = (budgets \ {b}) \cup
                         {[b EXCEPT !.category = data.category,
                                    !.amount = data.amount,
                                    !.month = data.month]}
                  /\ response' = Status("budget_update", 200)
             ELSE /\ response' = Status("budget_update", 400)
                  /\ UNCHANGED budgets
    /\ UNCHANGED <<categories, transactions, nextTransactionId, nextBudgetId, users, outbox, requests>>

BudgetDestroy(u, id) ==
    /\ \E b \in budgets :
          /\ b.id = id
          /\ IF b.user # u
             THEN /\ response' = Status("budget_destroy", 404)
                  /\ UNCHANGED budgets
             ELSE /\ budgets' = budgets \ {b}
                  /\ response' = Status("budget_destroy", 204)
    /\ UNCHANGED <<categories, transactions, nextTransactionId, nextBudgetId, users, outbox, requests>>

(***************************************************************************)
(* Budget.objects.create: a budget stored through the model, as the tests'  *)
(* fixtures do.  The field validators (MinValueValidator) run in            *)
(* full_clean only, not in save, so the amount may be 0; the foreign key    *)
(* and unique_together are enforced by the database.                        *)
(***************************************************************************)
BudgetObjectsCreate(u, data) ==
    /\ nextBudgetId <= MaxBudgets
    /\ data.category \in categories
    /\ CategoryOwner[data.category] = u
    /\ ~ \E b \in budgets : b.user = u /\ b.category = data.category /\ b.month = data.month
    /\ budgets' = budgets \cup
           {[id |-> nextBudgetId, user |-> u, category |-> data.category,
             amount |-> data.amount, month |-> data.month]}
    /\ nextBudgetId' = nextBudgetId + 1
    /\ response' = Status("objects_create", 0)
    /\ UNCHANGED <<categories, transactions, nextTransactionId, users, outbox, requests>>

(***************************************************************************)
(* BudgetViewSet.monthly_summary and BudgetViewSet.alerts                   *)
(***************************************************************************)
BudgetMonthlySummary(u, m) ==
    /\ response' = [op |-> "monthly_summary", status |-> 200, user |-> u, month |-> m,
                    body |-> get_monthly_budget_summary(u, m, budgets, transactions)]
    /\ UNCHANGED <<categories, transactions, budgets, nextTransactionId, nextBudgetId, users, outbox, requests>>

BudgetAlerts(u, m) ==
    /\ response' = [op |-> "alerts", status |-> 200, user |-> u, month |-> m,
                    body |-> get_budget_alerts(u, m, budgets, transactions)]
    /\ UNCHANGED <<categories, transactions, budgets, nextTransactionId, nextBudgetId, users, outbox, requests>>

(***************************************************************************)
(* BudgetViewSet.check_transaction_impact.  The payload gives each of the   *)
(* four fields as the raw value of the request, or Absent when the key is   *)
(* not in the request:                                                      *)
(*   date    [kind |-> "ymd", value |-> d]  a string strptime parses,       *)
(*           [kind |-> "text"]              a string it rejects (ValueError);*)
(*   amount  [kind |-> "decimal", value |-> cents]  a string Decimal parses,*)
(*           [kind |-> "text"]  one it rejects (decimal.InvalidOperation,    *)
(*                              an ArithmeticError, not a ValueError);      *)
(*   category  the primary key of a category; transaction_type  a string.   *)
(***************************************************************************)
Absent == [kind |-> "absent"]

strptime(raw) ==
    IF raw.kind = "ymd" THEN Returned(raw.value) ELSE Raised("ValueError")

ParseDecimal(raw) ==
    IF raw.kind = "decimal" THEN Returned(raw.value) ELSE Raised("InvalidOperation")

\* Category.objects.get(id=category_id, user=request.user)
GetCategory(u, raw) ==
    IF raw.value \in categories /\ CategoryOwner[raw.value] = u
    THEN Returned(raw.value) ELSE Raised("DoesNotExist")

\* except (ValueError, Category.DoesNotExist)
Caught == {"ValueError", "DoesNotExist"}

check_transaction_impact(u, payload) ==
    IF \E f \in {"category", "amount", "date", "transaction_type"} : payload[f] = Absent
    THEN [status |-> 400, body |-> "field is required"]
    ELSE LET parsed_date == strptime(payload.date)
             parsed_amount == ParseDecimal(payload.amount)
             category == GetCategory(u, payload.category)
             first_raise ==
                 IF parsed_date.outcome = "raise" THEN parsed_date.exception
                 ELSE IF parsed_amount.outcome = "raise" THEN parsed_amount.exception
                 ELSE IF category.outcome = "raise" THEN category.exception
                 ELSE None
         IN  IF first_raise \in Caught
             THEN [status |-> 400, body |-> "Invalid transaction data"]
             ELSE IF first_raise # None
             THEN [status |-> 500, body |-> first_raise]
             ELSE [status |-> 200,
                   body |-> check_transaction_impact_on_budget(u,
                                [kind |-> "dict",
                                 date |-> Some(parsed_date.value),
                                 amount |-> Some(parsed_amount.value),
                                 category |-> category.value,
                                 transaction_type |-> payload.transaction_type.value],
                                budgets, transactions).value]

BudgetCheckTransactionImpact(u, payload) ==
    /\ response' = [op |-> "check_transaction_impact", user |-> u, request |-> payload]
                   @@ check_transaction_impact(u, payload)
    /\ UNCHANGED <<categories, transactions, budgets, nextTransactionId, nextBudgetId, users, outbox, requests>>

\* A direct call of the service with transaction data or a Transaction object.
ServiceCheckTransactionImpact(u, t) ==
    /\ response' = [op |-> "check_transaction_impact_on_budget", status |-> 0, user |-> u,
                    request |-> t,
                    result |-> check_transaction_impact_on_budget(u, t, budgets, transactions)]
    /\ UNCHANGED <<categories, transactions, budgets, nextTransactionId, nextBudgetId, users, outbox, requests>>

(***************************************************************************)
(* CategoryViewSet.destroy.  Transaction.category is on_delete=SET_NULL and *)
(* Budget.category is on_delete=CASCADE: the transactions of the category   *)
(* stay, without a category, and its budgets are deleted with it.           *)
(***************************************************************************)
\* Mutant of SetNull: the transactions of the category are deleted with it.
SetNullCascades(c, txs) == {t \in txs : t.category # c}

SetNull(c, txs) ==
    {IF t.category = c THEN [t EXCEPT !.category = None] ELSE t : t \in txs}

CategoryDestroy(u, c) ==
    /\ IF c \in categories /\ CategoryOwner[c] = u
       THEN /\ categories' = categories \ {c}
            /\ transactions' = SetNull(c, transactions)
            /\ budgets' = {b \in budgets : b.category # c}
            /\ response' = [op |-> "category_destroy", status |-> 204, category |-> c,
                            transaction_count |->
                                Cardinality({t \in transactions : t.category = c})]
       ELSE /\ response' = [op |-> "category_destroy", status |-> 404, category |-> c]
            /\ UNCHANGED <<categories, transactions, budgets>>
    /\ UNCHANGED <<nextTransactionId, nextBudgetId, users, outbox, requests>>

(***************************************************************************)
(* CategoryViewSet.bulk_assign: category_id is the id of a category or None *)
(* (not in the request), transaction_ids a set of ids.                      *)
(***************************************************************************)
\* Mutant of AssignTo: the transactions of the ids, of any user.
AssignToAnyUser(u, c, ids, txs) ==
    {IF t.id \in ids THEN [t EXCEPT !.category = c] ELSE t : t \in txs}

\* Transaction.objects.filter(id__in=transaction_ids, user=request.user).update(...)
AssignTo(u, c, ids, txs) ==
    {IF t.id \in ids /\ t.user = u THEN [t EXCEPT !.category = c] ELSE t : t \in txs}

CategoryBulkAssign(u, c, ids) ==
    /\ IF c = None \/ ids = {}
       THEN /\ response' = [op |-> "bulk_assign", status |-> 400, user |-> u]
            /\ UNCHANGED transactions
       ELSE IF ~ (c \in categories /\ CategoryOwner[c] = u)
       THEN /\ response' = [op |-> "bulk_assign", status |-> 404, user |-> u]
            /\ UNCHANGED transactions
       ELSE /\ transactions' = AssignTo(u, c, ids, transactions)
            /\ response' = [op |-> "bulk_assign", status |-> 200, user |-> u, ids |-> ids,
                            updated_count |->
                                Cardinality({t \in transactions : t.id \in ids /\ t.user = u})]
    /\ UNCHANGED <<categories, budgets, nextTransactionId, nextBudgetId, users, outbox,
                   requests>>

(***************************************************************************)
(* BudgetViewSet.update and partial_update with BudgetUpdateSerializer,     *)
(* which requires no field: patch gives category, amount and month as       *)
(* optional values.  BudgetSerializer.validate looks for another budget     *)
(* only when the request gives both the category and the month; the save    *)
(* of a budget that repeats the (user, category, month) of another one      *)
(* fails on unique_together with IntegrityError, which the view does not    *)
(* catch.                                                                   *)
(***************************************************************************)
Patched(b, patch) ==
    [b EXCEPT !.category = IF patch.category = Nothing THEN @ ELSE patch.category[1],
              !.amount = IF patch.amount = Nothing THEN @ ELSE patch.amount[1],
              !.month = IF patch.month = Nothing THEN @ ELSE patch.month[1]]

\* Mutant of UniqueTogether: no constraint in the database.
UniqueTogetherUnchecked(b, bs) == TRUE

\* unique_together = ['user', 'category', 'month'] on the row b beside the rows bs.
UniqueTogether(b, bs) ==
    ~ \E other \in bs : /\ other.id # b.id
                        /\ other.user = b.user
                        /\ other.category = b.category
                        /\ other.month = b.month

BudgetPatchValid(u, patch, instance) ==
    /\ patch.amount # Nothing => patch.amount[1] > 0
    /\ patch.category # Nothing =>
           (patch.category[1] \in categories /\ CategoryOwner[patch.category[1]] = u)
    /\ patch.month # Nothing => patch.month[1].day = 1
    /\ (patch.category # Nothing /\ patch.month # Nothing) =>
           ~ \E b \in budgets : /\ b.user = u
                                /\ b.category = patch.category[1]
                                /\ b.month = patch.month[1]
                                /\ b.id # instance

BudgetPartialUpdate(u, id, patch) ==
    /\ \E b \in budgets :
          /\ b.id = id
          /\ IF b.user # u
             THEN /\ response' = Status("budget_partial_update", 404)
                  /\ UNCHANGED budgets
             ELSE IF ~ BudgetPatchValid(u, patch, id)
             THEN /\ response' = Status("budget_partial_update", 400)
                  /\ UNCHANGED budgets
             ELSE IF ~ UniqueTogether(Patched(b, patch), budgets)
             THEN /\ response' = [op |-> "budget_partial_update", status |-> 500,
                                  body |-> "IntegrityError"]
                  /\ UNCHANGED budgets
             ELSE /\ budgets' = (budgets \ {b}) \cup {Patched(b, patch)}
                  /\ response' = Status("budget_partial_update", 200)
    /\ UNCHANGED <<categories, transactions, nextTransactionId, nextBudgetId, users, outbox,
                   requests>>

(***************************************************************************)
(* BudgetViewSet.create as the two database round trips of one request:     *)
(* serializer.is_valid(), whose validate looks for an existing budget, and  *)
(* serializer.save(), whose INSERT meets unique_together and the foreign    *)
(* key of the category.  Nothing holds a lock between the two, so the steps *)
(* of two requests interleave.  requests[r] keeps what the request r was    *)
(* answered.                                                                *)
(***************************************************************************)
InFlight == {r \in RequestIds : requests[r].pc = "validated"}

BudgetCreateValidate(r, u, data) ==
    /\ requests[r].pc \in {"idle", "done"}
    /\ nextBudgetId + Cardinality(InFlight) <= MaxBudgets
    /\ IF BudgetDataValid(u, data, 0)
       THEN /\ requests' = [requests EXCEPT ![r] = [pc |-> "validated", user |-> u,
                                                    data |-> data]]
            /\ UNCHANGED response
       ELSE /\ requests' = [requests EXCEPT ![r] = [pc |-> "done", user |-> u, data |-> data,
                                                    status |-> 400, id |-> 0]]
            /\ response' = Status("budget_create", 400)
    /\ UNCHANGED <<categories, transactions, budgets, nextTransactionId, nextBudgetId,
                   users, outbox>>

\* Mutant of BudgetSaveStatus: the error of the INSERT is swallowed.
BudgetSaveStatusSwallowed(row, bs, cats) == 201

\* The answer to serializer.save(): 201, or the IntegrityError of the INSERT that
\* nothing catches, a server error.
BudgetSaveStatus(row, bs, cats) ==
    IF UniqueTogether(row, bs) /\ row.category \in cats THEN 201 ELSE 500

BudgetCreateSave(r) ==
    /\ requests[r].pc = "validated"
    /\ LET row == [id |-> nextBudgetId, user |-> requests[r].user,
                   category |-> requests[r].data.category,
                   amount |-> requests[r].data.amount,
                   month |-> requests[r].data.month]
           code == BudgetSaveStatus(row, budgets, categories)
       IN  /\ IF UniqueTogether(row, budgets) /\ row.category \in categories
              THEN /\ budgets' = budgets \cup {row}
                   /\ nextBudgetId' = nextBudgetId + 1
              ELSE UNCHANGED <<budgets, nextBudgetId>>
           /\ requests' = [requests EXCEPT ![r] = [pc |-> "done", user |-> requests[r].user,
                                                   data |-> requests[r].data,
                                                   status |-> code,
                                                   id |-> IF code = 201 THEN row.id ELSE 0]]
           /\ response' = IF code = 201 THEN Status("budget_create", 201)
                          ELSE [op |-> "budget_create", status |-> 500,
                                body |-> "IntegrityError"]
    /\ UNCHANGED <<categories, transactions, nextTransactionId, users, outbox>>

(***************************************************************************)
(* EmailVerificationService.  A token is the urlsafe base64 encoding of     *)
(* "id:email:new_email": [kind |-> "b64", data |-> the encoded text], or    *)
(* [kind |-> "garbage"] for a string that urlsafe_base64_decode rejects     *)
(* (binascii.Error, a ValueError).  Nothing signs the token.                *)
(***************************************************************************)
\* str(user.id) for the ids of the model, below 10
Str(n) == <<Digits[n + 1]>>

\* int(s): the number a string of decimal digits writes, or ValueError
RECURSIVE IntOfDigits(_, _)
IntOfDigits(s, value) ==
    IF s = <<>> THEN value
    ELSE IntOfDigits(Tail(s),
                     10 * value + ((CHOOSE k \in 1..10 : Digits[k] = Head(s)) - 1))

ParseInt(s) ==
    IF s # <<>> /\ \A i \in 1..Len(s) : \E k \in 1..10 : Digits[k] = s[i]
    THEN Returned(IntOfDigits(s, 0))
    ELSE Raised("ValueError")

\* s.split(':'): the parts between the colons, empty ones too
RECURSIVE SplitColonFrom(_, _, _)
SplitColonFrom(s, i, part) ==
    IF i > Len(s) THEN <<part>>
    ELSE IF s[i] = ":" THEN <<part>> \o SplitColonFrom(s, i + 1, <<>>)
    ELSE SplitColonFrom(s, i + 1, Append(part, s[i]))

SplitColon(s) == SplitColonFrom(s, 1, <<>>)

urlsafe_base64_encode(text) == [kind |-> "b64", data |-> text]

urlsafe_base64_decode(token) ==
    IF token.kind = "b64" THEN Returned(token.data) ELSE Raised("ValueError")

generate_verification_token(user, new_email) ==
    urlsafe_base64_encode(Str(user.id) \o <<":">> \o user.email \o <<":">> \o new_email)

\* The unpacking into three names raises ValueError for any other number of parts;
\* except (ValueError, TypeError) answers False.
verify_email_token(token, user, new_email) ==
    Bind(urlsafe_base64_decode(token),
         LAMBDA decoded_data :
             IF decoded_data.outcome = "raise" THEN FALSE
             ELSE Bind(SplitColon(decoded_data.value),
                       LAMBDA parts :
                           IF Len(parts) # 3 THEN FALSE
                           ELSE IF ParseInt(parts[1]).outcome = "raise" THEN FALSE
                           ELSE /\ ParseInt(parts[1]).value = user.id
                                /\ parts[2] = user.email
                                /\ parts[3] = new_email))

\* user.save(): the UPDATE meets the unique constraints of CustomUser.email and of
\* AbstractUser.username.
UserSaveConflicts(u, row, table) ==
    \E other \in Users \ {u} :
        table[other].email = row.email \/ table[other].username = row.username

GenerateVerificationToken(u, new_email) ==
    /\ response' = [op |-> "generate_verification_token", status |-> 0, user |-> u,
                    new_email |-> new_email,
                    result |-> generate_verification_token(users[u], new_email)]
    /\ UNCHANGED <<categories, transactions, budgets, nextTransactionId, nextBudgetId,
                   users, outbox, requests>>

\* A call of EmailVerificationService.verify_email_token(token, user, new_email).
ServiceVerifyEmailToken(u, new_email, token) ==
    /\ response' = [op |-> "verify_email_token", status |-> 0, user |-> u,
                    new_email |-> new_email, token |-> token,
                    result |-> Returned(verify_email_token(token, users[u], new_email))]
    /\ UNCHANGED <<categories, transactions, budgets, nextTransactionId, nextBudgetId,
                   users, outbox, requests>>

(***************************************************************************)
(* EmailVerificationService.complete_email_change(user, new_email, token).  *)
(* delivered is whether the mail backend accepts the notification:          *)
(* send_email_change_notification catches the exception of a failed send    *)
(* and returns False, which complete_email_change does not look at.  The    *)
(* notification goes to the old email; it greets the user and names the old *)
(* and the new email.                                                       *)
(***************************************************************************)
CompleteEmailChange(u, new_email, token, delivered) ==
    /\ Len(outbox) < MaxMails
    /\ LET user == users[u]
           old_email == user.email
           changed == [user EXCEPT !.email = new_email, !.username = new_email,
                                   !.is_email_verified = TRUE]
           Answer(result) == [op |-> "complete_email_change", status |-> 0, user |-> u,
                              new_email |-> new_email, token |-> token, result |-> result]
       IN  IF ~ verify_email_token(token, user, new_email)
           THEN /\ response' = Answer(Returned(FALSE))
                /\ UNCHANGED <<users, outbox>>
           ELSE IF UserSaveConflicts(u, changed, users)
           THEN /\ response' = Answer(Raised("IntegrityError"))
                /\ UNCHANGED <<users, outbox>>
           ELSE /\ users' = [users EXCEPT ![u] = changed]
                /\ outbox' = IF delivered
                             THEN Append(outbox, [to |-> old_email,
                                                  subject |-> "email_change_notification",
                                                  user |-> u, changed_to |-> new_email])
                             ELSE outbox
                /\ response' = Answer(Returned(TRUE))
    /\ UNCHANGED <<categories, transactions, budgets, nextTransactionId, nextBudgetId,
                   requests>>

(***************************************************************************)
(* A call of CategorySuggestionService._calculate_category_score with a     *)
(* category object and a lower-cased description.                           *)
(***************************************************************************)
ServiceCalculateCategoryScore(category, description_lower) ==
    /\ response' = [op |-> "_calculate_category_score", status |-> 0,
                    category |-> category, request |-> description_lower,
                    result |-> ScoreOfCategory(category, description_lower)]
    /\ UNCHANGED <<categories, transactions, budgets, nextTransactionId, nextBudgetId,
                   users, outbox, requests>>

(***************************************************************************)
(* AuthViewSet.password_reset and EmailService.send_password_reset_email.   *)
(* The mail goes to the user of the email, if there is one, and holds the   *)
(* token of default_token_generator.make_token(user), made of the key, the  *)
(* password and the email of the user, and the uid, the base64 of the key.  *)
(* The answer is the same with and without a user; delivered is whether the *)
(* mail backend accepts the mail.                                           *)
(***************************************************************************)
make_token(user) ==
    [kind |-> "reset_token", id |-> user.id, password |-> user.password, email |-> user.email]

PasswordReset(email, delivered) ==
    /\ Len(outbox) < MaxMails
    /\ outbox' = IF delivered /\ \E u \in Users : users[u].email = email
                 THEN LET u == CHOOSE v \in Users : users[v].email = email
                      IN  Append(outbox, [to |-> email, subject |-> "password_reset",
                                          user |-> u, token |-> make_token(users[u]),
                                          uid |-> urlsafe_base64_encode(Str(users[u].id))])
                 ELSE outbox
    /\ response' = [op |-> "password_reset", status |-> 200, email |-> email]
    /\ UNCHANGED <<categories, transactions, budgets, nextTransactionId, nextBudgetId,
                   users, requests>>

(***************************************************************************)
(* AuthViewSet.password_reset_confirm.  PasswordResetConfirmSerializer      *)
(* wants password and password_confirm equal.  The view decodes the token   *)
(* as base64 and takes the text for the key of the user whose password it   *)
(* sets; a token that is no base64 of a number (that of make_token is none) *)
(* or names no user is answered 400 (ValueError, User.DoesNotExist).        *)
(***************************************************************************)
\* User.objects.get(id=urlsafe_base64_decode(token).decode()): the users found.
UserOfResetToken(token) ==
    LET decoded == urlsafe_base64_decode(token)
    IN  IF decoded.outcome = "raise" \/ ParseInt(decoded.value).outcome = "raise" THEN {}
        ELSE {u \in Users : users[u].id = ParseInt(decoded.value).value}

PasswordResetConfirm(token, password, password_confirm) ==
    /\ IF password # password_confirm \/ UserOfResetToken(token) = {}
       THEN /\ response' = [op |-> "password_reset_confirm", status |-> 400, token |-> token]
            /\ UNCHANGED users
       ELSE /\ users' = [users EXCEPT
                            ![CHOOSE u \in UserOfResetToken(token) : TRUE].password =
                                password]
            /\ response' = [op |-> "password_reset_confirm", status |-> 200, token |-> token]
    /\ UNCHANGED <<categories, transactions, budgets, nextTransactionId, nextBudgetId,
                   outbox, requests>>

(***************************************************************************)
(* Calls of CategorySuggestionService and of                                *)
(* BudgetTrackingService.calculate_budget_status.                           *)
(***************************************************************************)
ServiceSuggestCategory(u, description) ==
    /\ response' = [op |-> "suggest_category", status |-> 0, user |-> u,
                    request |-> description,
                    result |-> suggest_category(u, description, categories)]
    /\ UNCHANGED <<categories, transactions, budgets, nextTransactionId, nextBudgetId,
                   users, outbox, requests>>

ServiceSuggestCategoryWithHistory(u, description) ==
    /\ response' = [op |-> "suggest_category_with_history", status |-> 0, user |-> u,
                    request |-> description,
                    result |-> suggest_category_with_history(u, description, categories,
                                                             transactions)]
    /\ UNCHANGED <<categories, transactions, budgets, nextTransactionId, nextBudgetId,
                   users, outbox, requests>>

\* Mutant of ServiceCategorySuggestionsForUser: the suggested categories are assigned.
ServiceCategorySuggestionsAssigned(u, limit) ==
    LET suggestions == get_category_suggestions_for_user(u, limit, categories, transactions)
        Suggested(t) == {i \in 1..Len(suggestions) : suggestions[i].transaction_id = t.id}
    IN  /\ response' = [op |-> "get_category_suggestions_for_user", status |-> 0,
                        user |-> u, request |-> limit, result |-> suggestions]
        /\ transactions' =
               {IF Suggested(t) = {} THEN t
                ELSE [t EXCEPT !.category =
                          suggestions[CHOOSE i \in Suggested(t) : TRUE].suggested_category.id]
                : t \in transactions}
        /\ UNCHANGED <<categories, budgets, nextTransactionId, nextBudgetId, users, outbox,
                       requests>>

ServiceCategorySuggestionsForUser(u, limit) ==
    /\ response' = [op |-> "get_category_suggestions_for_user", status |-> 0, user |-> u,
                    request |-> limit,
                    result |-> get_category_suggestions_for_user(u, limit, categories,
                                                                 transactions)]
    /\ UNCHANGED <<categories, transactions, budgets, nextTransactionId, nextBudgetId,
                   users, outbox, requests>>

ServiceCalculateBudgetStatus(id) ==
    /\ \E b \in budgets :
          /\ b.id = id
          /\ response' = [op |-> "calculate_budget_status", status |-> 0, user |-> b.user,
                          request |-> id,
                          result |-> calculate_budget_status(b, transactions)]
    /\ UNCHANGED <<categories, transactions, budgets, nextTransactionId, nextBudgetId,
                   users, outbox, requests>>

(***************************************************************************)
(* Calls of BudgetTrackingService.get_budget_alerts and                     *)
(* get_monthly_budget_summary with their optional month, Some(m) or Nothing *)
(* for None: without a month the services take the first day of the month  *)
(* of date.today(), the date of the clock at the call.                      *)
(***************************************************************************)
DefaultMonth(month, today) ==
    IF month = Nothing THEN Date(today.year, today.month, 1) ELSE month[1]

ServiceGetBudgetAlerts(u, month, today) ==
    /\ response' = [op |-> "get_budget_alerts", status |-> 0, user |-> u,
                    request |-> month, today |-> today,
                    result |-> get_budget_alerts(u, DefaultMonth(month, today), budgets,
                                                 transactions)]
    /\ UNCHANGED <<categories, transactions, budgets, nextTransactionId, nextBudgetId,
                   users, outbox, requests>>

ServiceGetMonthlyBudgetSummary(u, month, today) ==
    /\ response' = [op |-> "get_monthly_budget_summary", status |-> 0, user |-> u,
                    request |-> month, today |-> today,
                    result |-> get_monthly_budget_summary(u, DefaultMonth(month, today),
                                                          budgets, transactions)]
    /\ UNCHANGED <<categories, transactions, budgets, nextTransactionId, nextBudgetId,
                   users, outbox, requests>>

(***************************************************************************)
(* Spec: budget status, alerts and monthly summary.  Two users, three       *)
(* categories, expenses of 8.01 and 32.03 in February 2024 against budgets  *)
(* of 10.00 and 40.04 (and of 0.00, stored through the model):              *)
(* 8.01 / 10.00 is 80.1 %, 32.03 / 40.04 is 79.995... %, 8.01 + 32.03 is    *)
(* 100 % of 40.04.                                                          *)
(***************************************************************************)
February == Date(2024, 2, 1)

\* Transaction.description of the transactions of the budget specifications.
Unrelated == <<"z", "z", "q", "x">>

Months == {February}

TransactionData ==
    [category : {"c1"}, transaction_type : {"expense"},
     date : {Date(2024, 2, 29)}, amount : {801, 3203}, description : {Unrelated}]
    \cup [category : {"c2", "c3"}, transaction_type : {"expense"},
          date : {Date(2024, 2, 29)}, amount : {801}, description : {Unrelated}]

BudgetData ==
    [category : {"c1"}, amount : {1000, 4004}, month : Months]
    \cup [category : {"c2", "c3"}, amount : {1000}, month : Months]

ZeroBudgetData == [category : {"c1"}, amount : {0}, month : Months]

Next ==
    \/ \E u \in Users, c \in CategoryPool : CategoryCreate(u, c)
    \/ \E u \in Users, data \in TransactionData : TransactionCreate(u, data)
    \/ \E u \in Users, id \in 1..MaxTransactions : TransactionDestroy(u, id)
    \/ \E u \in Users, data \in BudgetData : BudgetCreate(u, data)
    \/ \E u \in Users, id \in 1..MaxBudgets, data \in BudgetData : BudgetUpdate(u, id, data)
    \/ \E u \in Users, id \in 1..MaxBudgets : BudgetDestroy(u, id)
    \/ \E u \in Users, data \in ZeroBudgetData : BudgetObjectsCreate(u, data)
    \/ \E u \in Users, m \in Months : BudgetMonthlySummary(u, m)
    \/ \E u \in Users, m \in Months : BudgetAlerts(u, m)

Spec == Init /\ [][Next]_vars

(***************************************************************************)
(* SpecLedger: which transactions a budget counts.  Budgets of 40.04 for    *)
(* January and February 2024; transactions of 8.01, income or expense, on   *)
(* the days around the ends of the two months and in February 2023.         *)
(***************************************************************************)
LedgerMonths == {Date(2024, 1, 1), February}

LedgerDates ==
    {Date(2023, 2, 28), Date(2024, 1, 31), Date(2024, 2, 1), Date(2024, 2, 29), Date(2024, 3, 1)}

LedgerTransactionData ==
    [category : {"c1"}, transaction_type : {"expense"}, date : LedgerDates, amount : {801},
     description : {Unrelated}]
    \cup [category : {"c1", None}, transaction_type : {"income"},
          date : {Date(2024, 2, 29)}, amount : {801}, description : {Unrelated}]

LedgerUpdateData ==
    {data \in LedgerTransactionData :
        data.category = "c1" /\ data.date \in {Date(2024, 2, 29), Date(2024, 3, 1)}}

LedgerBudgetData == [category : {"c1"}, amount : {4004}, month : LedgerMonths]

NextLedger ==
    \/ \E u \in Users : CategoryCreate(u, "c1")
    \/ \E u \in Users, data \in LedgerTransactionData : TransactionCreate(u, data)
    \/ \E u \in Users, id \in 1..MaxTransactions, data \in LedgerUpdateData :
          TransactionUpdate(u, id, data)
    \/ \E u \in Users, id \in 1..MaxTransactions : TransactionDestroy(u, id)
    \/ \E u \in Users, data \in LedgerBudgetData : BudgetCreate(u, data)
    \/ \E u \in Users, m \in LedgerMonths : BudgetMonthlySummary(u, m)

SpecLedger == Init /\ [][NextLedger]_vars

(***************************************************************************)
(* SpecImpact: the impact check.  User u1 with category c1 (and u2 with     *)
(* c3), budgets of 10.00, 40.04 and 0.00 for February 2024, expenses of     *)
(* 8.01, and candidates given to the endpoint and to the service.           *)
(***************************************************************************)
ImpactTransactionData ==
    [category : {"c1"}, transaction_type : {"expense"},
     date : {Date(2024, 2, 29)}, amount : {801}, description : {Unrelated}]

ImpactBudgetData == [category : {"c1"}, amount : {1000, 4004}, month : Months]

Raw(v) == [kind |-> "value", value |-> v]

Payloads ==
    [category : {Raw("c1"), Raw("c3"), Absent},
     amount : {[kind |-> "decimal", value |-> 900], [kind |-> "decimal", value |-> 3203],
               [kind |-> "decimal", value |-> 0], [kind |-> "text"], Absent},
     date : {[kind |-> "ymd", value |-> Date(2024, 2, 15)],
             [kind |-> "ymd", value |-> Date(2024, 3, 1)],
             [kind |-> "text"], Absent},
     transaction_type : {Raw("expense"), Raw("income"), Absent}]

Candidates ==
    [kind : {"dict", "object"},
     transaction_type : {"expense", "income"},
     category : {"c1", None},
     date : {Some(Date(2024, 2, 15)), Some(Date(2024, 3, 1)), Nothing},
     amount : {Some(900), Some(0), Nothing}]

NextImpact ==
    \/ \E u \in Users, c \in {"c1", "c3"} : CategoryCreate(u, c)
    \/ \E u \in Users, data \in ImpactTransactionData : TransactionCreate(u, data)
    \/ \E u \in Users, data \in ImpactBudgetData : BudgetCreate(u, data)
    \/ \E u \in Users, data \in ZeroBudgetData : BudgetObjectsCreate(u, data)
    \/ \E u \in Users, m \in Months : BudgetMonthlySummary(u, m)
    \/ \E u \in Users, payload \in Payloads : BudgetCheckTransactionImpact(u, payload)
    \/ \E u \in Users, t \in Candidates : ServiceCheckTransactionImpact(u, t)

SpecImpact == Init /\ [][NextImpact]_vars

(***************************************************************************)
(* SpecSuggest: suggest_category.  The users create and delete their        *)
(* categories and ask for a suggestion for a description:                   *)
(*   "uber market" scores 0.8 for Groceries and for Transportation with one *)
(*   keyword each; "uber taxi fuel market store" scores 1.0 for both, with  *)
(*   two keywords of Groceries and three of Transportation; "supermarkets"  *)
(*   holds the keywords supermarket and market, not as words; "Monthly      *)
(*   Expenses" holds a word of the description of Transportation.           *)
(***************************************************************************)
Empty == <<>>

UnrelatedToken ==
    <<"z", "z", "q", "x", " ", "u", "n", "r", "e", "l", "a", "t", "e", "d", " ", "t", "o",
      "k", "e", "n">>

UberRide ==
    <<"U", "b", "e", "r", " ", "r", "i", "d", "e", " ", "t", "o", " ", "a", "i", "r", "p",
      "o", "r", "t">>

UberMarket == <<"u", "b", "e", "r", " ", "m", "a", "r", "k", "e", "t">>

UberMarketCapitals == <<"U", "B", "E", "R", " ", "M", "A", "R", "K", "E", "T">>

UberTaxiFuel ==
    <<"u", "b", "e", "r", " ", "t", "a", "x", "i", " ", "f", "u", "e", "l", " ", "m", "a",
      "r", "k", "e", "t", " ", "s", "t", "o", "r", "e">>

Supermarkets == <<"s", "u", "p", "e", "r", "m", "a", "r", "k", "e", "t", "s">>

MonthlyExpenses ==
    <<"M", "o", "n", "t", "h", "l", "y", " ", "E", "x", "p", "e", "n", "s", "e", "s">>

MyGroceries == <<"m", "y", " ", "g", "r", "o", "c", "e", "r", "i", "e", "s">>

ElectricBill == <<"e", "l", "e", "c", "t", "r", "i", "c", " ", "b", "i", "l", "l">>

WalmartGrocery ==
    <<"w", "a", "l", "m", "a", "r", "t", " ", "g", "r", "o", "c", "e", "r", "y">>

WalmartGroceryCapitals ==
    <<"W", "A", "L", "M", "A", "R", "T", " ", "G", "R", "O", "C", "E", "R", "Y">>

SuggestDescriptions ==
    {Empty, UnrelatedToken, UberRide, UberMarket,
     UberMarketCapitals, UberTaxiFuel, Supermarkets, MonthlyExpenses,
     MyGroceries, ElectricBill, WalmartGrocery, WalmartGroceryCapitals}

NextSuggest ==
    \/ \E u \in Users, c \in CategoryPool : CategoryCreate(u, c)
    \/ \E u \in Users, c \in CategoryPool : CategoryDestroy(u, c)
    \/ \E u \in Users, description \in SuggestDescriptions :
          ServiceSuggestCategory(u, description)

SpecSuggest == Init /\ [][NextSuggest]_vars

(***************************************************************************)
(* SpecCategories: the categories of the transactions.  u1 has the category *)
(* c1 and u2 the category c3; they create transactions with one of the two  *)
(* categories or none, change them, assign categories in bulk and delete    *)
(* categories; u1 has a budget for c1.                                      *)
(***************************************************************************)
CategoriesTransactionData ==
    [category : {"c1", "c3", None}, transaction_type : {"expense"},
     date : {Date(2024, 2, 29)}, amount : {801}, description : {Unrelated}]

CategoriesBudgetData == [category : {"c1"}, amount : {1000}, month : Months]

TransactionIdSets == (SUBSET (1..MaxTransactions)) \ {{}}

NextCategories ==
    \/ \E u \in Users, c \in {"c1", "c3"} : CategoryCreate(u, c)
    \/ \E u \in Users, c \in {"c1", "c3"} : CategoryDestroy(u, c)
    \/ \E u \in Users, data \in CategoriesTransactionData : TransactionCreate(u, data)
    \/ \E u \in Users, id \in 1..MaxTransactions, data \in CategoriesTransactionData :
          TransactionUpdate(u, id, data)
    \/ \E u \in Users, c \in {"c1", "c3", None}, ids \in TransactionIdSets \cup {{}} :
          CategoryBulkAssign(u, c, ids)
    \/ \E u \in Users, data \in CategoriesBudgetData : BudgetCreate(u, data)

SpecCategories == Init /\ [][NextCategories]_vars

(***************************************************************************)
(* SpecBudgets: the budgets of a user, category and month.  u1 has the      *)
(* categories c1 and c2 and u2 the category c3; they create budgets for     *)
(* January and February 2024, replace them, change their category, month    *)
(* or amount alone, and delete them.                                        *)
(***************************************************************************)
BudgetsData == [category : CategoryPool, amount : {1000}, month : LedgerMonths]

BudgetPatches ==
    [category : {Some(c) : c \in {"c1", "c2"}}, amount : {Nothing}, month : {Nothing}]
    \cup [category : {Nothing}, amount : {Nothing}, month : {Some(m) : m \in LedgerMonths}]
    \cup [category : {Nothing}, amount : {Some(4004)}, month : {Nothing}]
    \cup [category : {Some("c1")}, amount : {Nothing}, month : {Some(February)}]

NextBudgets ==
    \/ \E u \in Users, c \in CategoryPool : CategoryCreate(u, c)
    \/ \E u \in Users, data \in BudgetsData : BudgetCreate(u, data)
    \/ \E u \in Users, id \in 1..MaxBudgets, data \in BudgetsData : BudgetUpdate(u, id, data)
    \/ \E u \in Users, id \in 1..MaxBudgets, patch \in BudgetPatches :
          BudgetPartialUpdate(u, id, patch)
    \/ \E u \in Users, id \in 1..MaxBudgets : BudgetDestroy(u, id)

SpecBudgets == Init /\ [][NextBudgets]_vars

(***************************************************************************)
(* Owner isolation: the two users create and delete categories, create      *)
(* transactions of 8.01 described "zzqx" with a category, take the          *)
(* category off them and delete them; u1 creates and deletes budgets of     *)
(* 10.00 for February 2024 on Groceries.                                    *)
(***************************************************************************)
IsolationTransactionData ==
    [category : {"c1", "c3"}, transaction_type : {"expense"},
     date : {Date(2024, 2, 29)}, amount : {801}, description : {Unrelated}]

IsolationUpdateData ==
    [category : {None}, transaction_type : {"expense"},
     date : {Date(2024, 2, 29)}, amount : {801}, description : {Unrelated}]

IsolationBudgetData == [category : {"c1"}, amount : {1000}, month : Months]

NextIsolation ==
    \/ \E u \in Users, c \in {"c1", "c3"} : CategoryCreate(u, c)
    \/ \E u \in Users, c \in {"c1", "c3"} : CategoryDestroy(u, c)
    \/ \E u \in Users, data \in IsolationTransactionData : TransactionCreate(u, data)
    \/ \E u \in Users, id \in 1..MaxTransactions, data \in IsolationUpdateData :
          TransactionUpdate(u, id, data)
    \/ \E u \in Users, id \in 1..MaxTransactions : TransactionDestroy(u, id)
    \/ \E u \in Users, data \in IsolationBudgetData : BudgetCreate(u, data)
    \/ \E u \in Users, id \in 1..MaxBudgets : BudgetDestroy(u, id)

SpecIsolation == Init /\ [][NextIsolation]_vars

(***************************************************************************)
(* SpecRace: the two users create their categories Groceries and Utilities  *)
(* and send budget creation requests for February 2024, of 10.00 or 20.00,  *)
(* two requests at a time.                                                  *)
(***************************************************************************)
RaceBudgetData == [category : {"c1", "c3"}, amount : {1000, 2000}, month : {February}]

NextRace ==
    \/ \E u \in Users, c \in {"c1", "c3"} : CategoryCreate(u, c)
    \/ \E r \in RequestIds, u \in Users, data \in RaceBudgetData :
          BudgetCreateValidate(r, u, data)
    \/ \E r \in RequestIds : BudgetCreateSave(r)

SpecRace == Init /\ [][NextRace]_vars

(***************************************************************************)
(* SpecServices: the services beside the writes.  u1 creates Groceries,     *)
(* transactions of 8.01 described "my groceries" with or without the        *)
(* category, and a budget of 10.00 for February 2024; every service is      *)
(* called, get_budget_alerts and get_monthly_budget_summary with February   *)
(* or without a month, on 29 February or on 1 March 2024.                   *)
(***************************************************************************)
ServicesTransactionData ==
    [category : {"c1", None}, transaction_type : {"expense"},
     date : {Date(2024, 2, 29)}, amount : {801}, description : {MyGroceries}]

ServicesBudgetData == [category : {"c1"}, amount : {1000}, month : {February}]

ServicesCandidates ==
    [kind : {"dict", "object"}, transaction_type : {"expense"}, category : {"c1"},
     date : {Some(Date(2024, 2, 15))}, amount : {Some(900)}]

Todays == {Date(2024, 2, 29), Date(2024, 3, 1)}

NextServices ==
    \/ \E u \in Users : CategoryCreate(u, "c1")
    \/ \E u \in Users, data \in ServicesTransactionData : TransactionCreate(u, data)
    \/ \E u \in Users, data \in ServicesBudgetData : BudgetCreate(u, data)
    \/ \E id \in 1..MaxBudgets : ServiceCalculateBudgetStatus(id)
    \/ \E u \in Users, month \in {Some(February), Nothing}, today \in Todays :
          ServiceGetBudgetAlerts(u, month, today)
    \/ \E u \in Users, month \in {Some(February), Nothing}, today \in Todays :
          ServiceGetMonthlyBudgetSummary(u, month, today)
    \/ \E u \in Users, t \in ServicesCandidates : ServiceCheckTransactionImpact(u, t)
    \/ \E u \in Users : ServiceSuggestCategory(u, MyGroceries)
    \/ \E u \in Users, description \in {MyGroceries, Unrelated} :
          ServiceSuggestCategoryWithHistory(u, description)
    \/ \E u \in Users, limit \in {1, 5} : ServiceCategorySuggestionsForUser(u, limit)

SpecServices == Init /\ [][NextServices]_vars

(***************************************************************************)
(* SpecEmail: the email change.  u1 (a@x) and u2 (b@x) ask for tokens and   *)
(* complete changes to b@x or c@x with the token of any user, present email *)
(* and new email, with a token of two parts, one whose id is not a number   *)
(* and a string that is not base64; the mail backend accepts the            *)
(* notification or fails.                                                   *)
(***************************************************************************)
Addresses == {Email["u1"], Email["u2"], <<"c", "@", "x">>}

NewAddresses == {Email["u2"], <<"c", "@", "x">>}

Tokens ==
    {generate_verification_token([id |-> id, email |-> email], new_email) :
         id \in {UserId[u] : u \in Users}, email \in Addresses, new_email \in NewAddresses}
    \cup {urlsafe_base64_encode(<<"1", ":">> \o Email["u1"]),
          urlsafe_base64_encode(<<"x", ":">> \o Email["u1"] \o <<":", "c", "@", "x">>),
          [kind |-> "garbage"]}

NextEmail ==
    \/ \E u \in Users, new_email \in NewAddresses : GenerateVerificationToken(u, new_email)
    \/ \E u \in Users, new_email \in NewAddresses, token \in Tokens, delivered \in BOOLEAN :
          CompleteEmailChange(u, new_email, token, delivered)

SpecEmail == Init /\ [][NextEmail]_vars

(***************************************************************************)
(* SpecScore: _calculate_category_score on category objects named           *)
(* Groceries, Food (aligned with the classes dining and groceries),         *)
(* Transportation, Fun Travel (entertainment and transportation), To Go and *)
(* Utilities, without a description or described "Travel and commute        *)
(* expenses", against lower-cased descriptions.                             *)
(***************************************************************************)
NameGroceries == <<"G", "r", "o", "c", "e", "r", "i", "e", "s">>

NameFood == <<"F", "o", "o", "d">>

NameTransportation == <<"T", "r", "a", "n", "s", "p", "o", "r", "t", "a", "t", "i", "o", "n">>

NameFunTravel == <<"F", "u", "n", " ", "T", "r", "a", "v", "e", "l">>

NameToGo == <<"T", "o", " ", "G", "o">>

NameUtilities == <<"U", "t", "i", "l", "i", "t", "i", "e", "s">>

AboutTravel ==
    <<"T", "r", "a", "v", "e", "l", " ", "a", "n", "d", " ", "c", "o", "m", "m", "u", "t",
      "e", " ", "e", "x", "p", "e", "n", "s", "e", "s">>

GoToMarket == <<"g", "o", " ", "t", "o", " ", "m", "a", "r", "k", "e", "t">>

FoodMarket == <<"f", "o", "o", "d", " ", "m", "a", "r", "k", "e", "t">>

RestaurantFoodSupermarket ==
    <<"r", "e", "s", "t", "a", "u", "r", "a", "n", "t", " ", "f", "o", "o", "d", " ", "s",
      "u", "p", "e", "r", "m", "a", "r", "k", "e", "t">>

TravelAndCommute ==
    <<"t", "r", "a", "v", "e", "l", " ", "a", "n", "d", " ", "c", "o", "m", "m", "u", "t",
      "e">>

ExpensesOnly == <<"e", "x", "p", "e", "n", "s", "e", "s">>

FunMovieTravel ==
    <<"f", "u", "n", " ", "m", "o", "v", "i", "e", " ", "t", "r", "a", "v", "e", "l">>

GroceriesOnly == <<"g", "r", "o", "c", "e", "r", "i", "e", "s">>

MarketStoreFoodMilk ==
    <<"m", "a", "r", "k", "e", "t", " ", "s", "t", "o", "r", "e", " ", "f", "o", "o", "d",
      " ", "m", "i", "l", "k">>

ElectricWaterBill ==
    <<"e", "l", "e", "c", "t", "r", "i", "c", " ", "w", "a", "t", "e", "r", " ", "b", "i",
      "l", "l">>

CommuteExpensesTravelFun ==
    <<"c", "o", "m", "m", "u", "t", "e", " ", "e", "x", "p", "e", "n", "s", "e", "s", " ",
      "t", "r", "a", "v", "e", "l", " ", "f", "u", "n">>

ScoreCategories ==
    [name : {NameGroceries, NameFood, NameTransportation, NameFunTravel,
             NameToGo, NameUtilities},
     description : {<<>>, AboutTravel}]

ScoreDescriptions ==
    {Unrelated, GoToMarket, FoodMarket, RestaurantFoodSupermarket, TravelAndCommute,
     ExpensesOnly, FunMovieTravel, GroceriesOnly, MarketStoreFoodMilk,
     ElectricWaterBill, CommuteExpensesTravelFun}

NextScore ==
    \E category \in ScoreCategories, description_lower \in ScoreDescriptions :
        ServiceCalculateCategoryScore(category, description_lower)

SpecScore == Init /\ [][NextScore]_vars

(***************************************************************************)
(* SpecHistory: the suggestions from the history.  The three categories     *)
(* exist and the table of transactions holds up to MaxHistory rows, each    *)
(* one of HistoryRows; suggest_category_with_history is called.  No word of *)
(* the descriptions but "uber" (Transportation) is a keyword or a word of a *)
(* category.  To "acme corp" the similarity of "acme corp june" is 2/3, of  *)
(* "acme june" 1/3, of "acme june july" 1/4, and of "acme, corp", whose     *)
(* words are "acme," and "corp", 1/3.                                       *)
(***************************************************************************)
MaxHistory == 3

AcmeCorp == <<"a", "c", "m", "e", " ", "c", "o", "r", "p">>

AcmeCorpCapitals == <<"A", "C", "M", "E", " ", "C", "o", "r", "p">>

AcmeCorpJune == <<"a", "c", "m", "e", " ", "c", "o", "r", "p", " ", "j", "u", "n", "e">>

AcmeJune == <<"a", "c", "m", "e", " ", "j", "u", "n", "e">>

AcmeJuneJuly == <<"a", "c", "m", "e", " ", "j", "u", "n", "e", " ", "j", "u", "l", "y">>

AcmeCommaCorp == <<"a", "c", "m", "e", ",", " ", "c", "o", "r", "p">>

UberAcme == <<"u", "b", "e", "r", " ", "a", "c", "m", "e">>

HistoryRows ==
    <<[user |-> "u1", category |-> "c1", date |-> Date(2024, 2, 1), description |-> AcmeCorp],
      [user |-> "u1", category |-> "c1", date |-> Date(2024, 2, 1),
       description |-> AcmeCommaCorp],
      [user |-> "u1", category |-> "c1", date |-> Date(2024, 2, 1),
       description |-> AcmeJuneJuly],
      [user |-> "u1", category |-> "c2", date |-> Date(2024, 2, 1),
       description |-> AcmeCorpJune],
      [user |-> "u1", category |-> "c2", date |-> Date(2024, 2, 29), description |-> AcmeJune],
      [user |-> "u2", category |-> "c3", date |-> Date(2024, 2, 1), description |-> AcmeCorp],
      [user |-> "u1", category |-> None, date |-> Date(2024, 2, 29), description |-> Unrelated],
      [user |-> "u1", category |-> None, date |-> Date(2024, 2, 1), description |-> AcmeCorp],
      [user |-> "u1", category |-> None, date |-> Date(2024, 2, 1), description |-> UberAcme]>>

\* The rows of the numbers ix, with the ids 1, 2, ... in this order.
TableOf(rows, ix) ==
    {[id |-> i, user |-> rows[ix[i]].user, category |-> rows[ix[i]].category,
      transaction_type |-> "expense", date |-> rows[ix[i]].date, amount |-> 801,
      description |-> rows[ix[i]].description] : i \in 1..Len(ix)}

TablesOf(rows) ==
    {TableOf(rows, ix) :
        ix \in {s \in UNION {[1..n -> 1..Len(rows)] : n \in 0..MaxHistory} :
                   \A i \in 1..(Len(s) - 1) : s[i] <= s[i + 1]}}

HistoryDescriptions == {AcmeCorp, AcmeCorpCapitals, UberAcme, Unrelated}

\* The three categories and a table of transactions made of the rows.
InitTable(rows) ==
    /\ categories = CategoryPool
    /\ transactions \in TablesOf(rows)
    /\ budgets = {}
    /\ nextTransactionId = Cardinality(transactions) + 1
    /\ nextBudgetId = 1
    /\ response = [op |-> "none", status |-> 0]
    /\ users = [u \in Users |-> [id |-> UserId[u], email |-> Email[u], username |-> Email[u],
                                  is_email_verified |-> FALSE, password |-> "initial"]]
    /\ outbox = <<>>
    /\ requests = [r \in RequestIds |-> [pc |-> "idle"]]

InitHistory == InitTable(HistoryRows)

NextHistory ==
    \E u \in Users, description \in HistoryDescriptions :
        ServiceSuggestCategoryWithHistory(u, description)

SpecHistory == InitHistory /\ [][NextHistory]_vars

(***************************************************************************)
(* SpecUncategorized: the suggestions for the uncategorized transactions.   *)
(* The three categories exist and the table of transactions holds up to     *)
(* MaxHistory rows, each one of UncategorizedRows;                          *)
(* get_category_suggestions_for_user is called with the limit 0, 1 or 2.    *)
(* "uber acme" is suggested Transportation for u1 and nothing for u2,       *)
(* "acme corp" Groceries for u1 once the categorized row is there, and      *)
(* "zzqx" nothing.                                                          *)
(***************************************************************************)
UncategorizedRows ==
    <<[user |-> "u1", category |-> None, date |-> Date(2024, 2, 29), description |-> Unrelated],
      [user |-> "u1", category |-> None, date |-> Date(2024, 2, 15), description |-> Unrelated],
      [user |-> "u1", category |-> None, date |-> Date(2024, 2, 1), description |-> UberAcme],
      [user |-> "u1", category |-> None, date |-> Date(2024, 2, 29), description |-> UberAcme],
      [user |-> "u1", category |-> None, date |-> Date(2024, 2, 15), description |-> AcmeCorp],
      [user |-> "u2", category |-> None, date |-> Date(2024, 2, 29), description |-> UberAcme],
      [user |-> "u1", category |-> "c1", date |-> Date(2024, 2, 1), description |-> AcmeCorp]>>

InitUncategorized == InitTable(UncategorizedRows)

NextUncategorized ==
    \E u \in Users, limit \in 0..2 : ServiceCategorySuggestionsForUser(u, limit)

SpecUncategorized == InitUncategorized /\ [][NextUncategorized]_vars

(***************************************************************************)
(* SpecPrediction: the impact check and the commit of the candidate.  u1    *)
(* has the category c1 and a budget of 10.00, 40.04 or 0.00 for February    *)
(* 2024; expenses of 8.01, 9.00 and 32.03 of 15 or 29 February are given to *)
(* check_transaction_impact_on_budget and created.                          *)
(***************************************************************************)
PredictionTransactionData ==
    [category : {"c1"}, transaction_type : {"expense"},
     date : {Date(2024, 2, 15), Date(2024, 2, 29)}, amount : {801, 900, 3203},
     description : {Unrelated}]

PredictionCandidates ==
    [kind : {"dict", "object"}, transaction_type : {"expense"}, category : {"c1"},
     date : {Some(Date(2024, 2, 15))}, amount : {Some(801), Some(900), Some(3203)}]

NextPrediction ==
    \/ \E u \in Users : CategoryCreate(u, "c1")
    \/ \E u \in Users, data \in PredictionTransactionData : TransactionCreate(u, data)
    \/ \E u \in Users, data \in ImpactBudgetData : BudgetCreate(u, data)
    \/ \E u \in Users, data \in ZeroBudgetData : BudgetObjectsCreate(u, data)
    \/ \E u \in Users, t \in PredictionCandidates : ServiceCheckTransactionImpact(u, t)
    \/ \E id \in 1..MaxBudgets : ServiceCalculateBudgetStatus(id)

SpecPrediction == Init /\ [][NextPrediction]_vars

(***************************************************************************)
(* SpecSignedImpact: the impact check of amounts of either sign.  u1 has    *)
(* the category c1, a budget of 10.00 or 40.04 for February 2024 and        *)
(* expenses of 8.01; the endpoint is given expenses of 15 February of 9.00, *)
(* 0, -1.00 and -9.00.                                                      *)
(***************************************************************************)
SignedPayloads ==
    [category : {Raw("c1")},
     amount : {[kind |-> "decimal", value |-> 900], [kind |-> "decimal", value |-> 0],
               [kind |-> "decimal", value |-> -100], [kind |-> "decimal", value |-> -900]},
     date : {[kind |-> "ymd", value |-> Date(2024, 2, 15)]},
     transaction_type : {Raw("expense")}]

NextSignedImpact ==
    \/ \E u \in Users : CategoryCreate(u, "c1")
    \/ \E u \in Users, data \in ImpactTransactionData : TransactionCreate(u, data)
    \/ \E u \in Users, data \in ImpactBudgetData : BudgetCreate(u, data)
    \/ \E u \in Users, payload \in SignedPayloads : BudgetCheckTransactionImpact(u, payload)

SpecSignedImpact == Init /\ [][NextSignedImpact]_vars

(***************************************************************************)
(* SpecReplay: tokens of the email change that are used again.  u1 (a@x)    *)
(* and u2 (b@x) call verify_email_token and complete_email_change for a@x   *)
(* and c@x with the tokens of u1 from a@x to c@x, from c@x to a@x and from  *)
(* a@x to b@x and the token of the id of u2 from a@x to c@x.                *)
(***************************************************************************)
ReplayAddresses == {Email["u1"], <<"c", "@", "x">>}

ReplayTokens ==
    {generate_verification_token([id |-> 1, email |-> Email["u1"]], <<"c", "@", "x">>),
     generate_verification_token([id |-> 1, email |-> <<"c", "@", "x">>], Email["u1"]),
     generate_verification_token([id |-> 1, email |-> Email["u1"]], Email["u2"]),
     generate_verification_token([id |-> 2, email |-> Email["u1"]], <<"c", "@", "x">>)}

NextReplay ==
    \/ \E u \in Users, new_email \in ReplayAddresses : GenerateVerificationToken(u, new_email)
    \/ \E u \in Users, new_email \in ReplayAddresses, token \in ReplayTokens :
          ServiceVerifyEmailToken(u, new_email, token)
    \/ \E u \in Users, new_email \in ReplayAddresses, token \in ReplayTokens,
          delivered \in BOOLEAN :
          CompleteEmailChange(u, new_email, token, delivered)

SpecReplay == Init /\ [][NextReplay]_vars

(***************************************************************************)
(* SpecPasswordReset: the password reset.  Reset mails are asked for a@x,   *)
(* b@x and c@x (no user); password-reset-confirm is posted with a token of  *)
(* a reset mail in the outbox, with the base64 of the keys 1, 2 and 3 (no   *)
(* user) and of "x", or with a string that is not base64, and with one of   *)
(* two passwords, confirmed or not.                                         *)
(***************************************************************************)
Passwords == {"first-new-password", "second-new-password"}

ResetTokens ==
    {urlsafe_base64_encode(Str(1)), urlsafe_base64_encode(Str(2)),
     urlsafe_base64_encode(Str(3)), urlsafe_base64_encode(<<"x">>), [kind |-> "garbage"]}

MailedTokens == {outbox[i].token : i \in 1..Len(outbox)}

NextPasswordReset ==
    \/ \E email \in Addresses, delivered \in BOOLEAN : PasswordReset(email, delivered)
    \/ \E token \in ResetTokens \cup MailedTokens, password \in Passwords,
          password_confirm \in Passwords :
          PasswordResetConfirm(token, password, password_confirm)

SpecPasswordReset == Init /\ [][NextPasswordReset]_vars

(***************************************************************************)
(*                      Properties of budget tracking                       *)
(***************************************************************************)
SummaryReturned == response.op = "monthly_summary"

\* The status records of the returned monthly summary.
StatusRecords ==
    {response.body.budget_details[i] : i \in DOMAIN response.body.budget_details}

BudgetById(id) == CHOOSE b \in budgets : b.id = id

\* C1: for a budget with amount > 0 the status of every returned status record is
\* over_budget exactly when its reported percentage_used is at least 100,
\* near_limit exactly when it is at least 80 and below 100, and under_budget
\* exactly when it is below 80 (percentage_used is in hundredths of a percent).
StatusPartitionsReportedPercentage ==
    SummaryReturned =>
        \A r \in StatusRecords :
            r.budget_amount > 0 =>
                /\ (r.status = "over_budget") <=> (r.percentage_used >= 10000)
                /\ (r.status = "near_limit") <=>
                       (r.percentage_used >= 8000 /\ r.percentage_used < 10000)
                /\ (r.status = "under_budget") <=> (r.percentage_used < 8000)

SpentAmount(b, txs) == calculate_budget_status(b, txs).spent_amount

\* A step that adds, changes or removes income transactions only.
IncomeOnlyStep ==
    /\ budgets' = budgets
    /\ transactions' # transactions
    /\ \A t \in (transactions' \ transactions) \cup (transactions \ transactions') :
           t.transaction_type = "income"

\* C2: a step that creates, updates or deletes income transactions only leaves the
\* spent_amount of every budget unchanged, and the spent_amount of a budget is
\* what it is over the expense transactions alone.
IncomeLeavesSpentUnchanged ==
    [][/\ \A b \in budgets :
              SpentAmount(b, transactions) =
                  SpentAmount(b, {t \in transactions : t.transaction_type = "expense"})
       /\ IncomeOnlyStep =>
              \A b \in budgets : SpentAmount(b, transactions') = SpentAmount(b, transactions)
      ]_vars

\* Witness of C2: an income transaction of a budget's owner, category and month
\* has just been created beside an expense the budget counts.
IncomeCreatedInBudgetMonth ==
    /\ response = Status("transaction_create", 201)
    /\ \E t \in transactions, b \in budgets :
           /\ t.id = nextTransactionId - 1
           /\ t.transaction_type = "income"
           /\ t.user = b.user /\ t.category = b.category
           /\ t.date = Date(2024, 2, 29) /\ b.month = February
           /\ SpentAmount(b, transactions) > 0

SameMonth(d, m) == d.year = m.year /\ d.month = m.month

\* C3: in a returned status record, an expense of the budget's owner and category
\* contributes its amount to spent_amount if and only if its date is in the
\* calendar year and month of the budget's month (without the transaction,
\* spent_amount is smaller by its amount); any other transaction contributes 0.
SpentCountsExactlyTheMonth ==
    SummaryReturned =>
        \A r \in StatusRecords, t \in transactions :
            LET b == BudgetById(r.budget_id)
                counted == /\ t.user = b.user
                           /\ t.category = b.category
                           /\ t.transaction_type = "expense"
                           /\ SameMonth(t.date, b.month)
            IN  r.spent_amount - SpentAmount(b, transactions \ {t}) =
                    IF counted THEN t.amount ELSE 0

\* Witness of C3: a summary of February 2024 whose budget counts an expense of
\* 29 February and does not count one of 1 March.
LeapDayCounted ==
    /\ SummaryReturned
    /\ \E r \in StatusRecords, t1 \in transactions, t2 \in transactions :
           /\ r.month = February
           /\ r.spent_amount = t1.amount
           /\ t1.user = response.user /\ t1.category = r.category_id
           /\ t1.transaction_type = "expense" /\ t1.date = Date(2024, 2, 29)
           /\ t2.user = response.user /\ t2.category = r.category_id
           /\ t2.transaction_type = "expense" /\ t2.date = Date(2024, 3, 1)

\* C4: in every returned status record remaining_amount + spent_amount is the
\* budget amount, also when the spending exceeds the budget or is zero.
RemainingPlusSpentIsBudget ==
    SummaryReturned =>
        \A r \in StatusRecords : r.remaining_amount + r.spent_amount = r.budget_amount

\* Witness of C4: a returned status record of an overspent budget.
OverspentRecordReturned ==
    /\ SummaryReturned
    /\ \E r \in StatusRecords : r.spent_amount > r.budget_amount /\ r.remaining_amount < 0

ImpactReturned ==
    /\ response.op = "check_transaction_impact"
    /\ response.status = 200
    /\ response.body.has_impact

\* C5: a budget whose amount is 0 has percentage_used = 0, status under_budget and
\* alert level none in every returned status record, and an impact check on it
\* reports old and new percentage 0 (nothing is divided by zero).
ZeroBudgetIsZeroPercent ==
    /\ SummaryReturned =>
           \A r \in StatusRecords :
               r.budget_amount = 0 =>
                   /\ r.percentage_used = 0
                   /\ r.status = "under_budget"
                   /\ r.alert_level = "none"
    /\ (ImpactReturned /\ response.body.budget_amount = 0) =>
           /\ response.body.new_percentage = 0
           /\ response.body.old_percentage = 0
           /\ response.body.old_alert_level = "none"

\* Witness of C5: an impact check returned for a budget of amount 0 that already
\* has spending.
ZeroBudgetImpactReturned ==
    /\ ImpactReturned
    /\ response.body.budget_amount = 0
    /\ response.body.old_spent > 0
    /\ response.body.new_spent > response.body.old_spent

RECURSIVE TotalAmount(_)
TotalAmount(B) ==
    IF B = {} THEN 0
    ELSE LET b == CHOOSE x \in B : TRUE IN b.amount + TotalAmount(B \ {b})

RECURSIVE TotalSpent(_)
TotalSpent(B) ==
    IF B = {} THEN 0
    ELSE LET b == CHOOSE x \in B : TRUE
         IN  SpentAmount(b, transactions) + TotalSpent(B \ {b})

\* The requester's budgets of the requested month.
RequestedBudgets == {b \in budgets : b.user = response.user /\ b.month = response.month}

\* C6: the returned monthly summary has total_budgeted = the sum of the amounts of
\* exactly the owner's budgets of the month, total_spent = the sum of their spent
\* amounts, total_remaining = total_budgeted - total_spent, overall percentage 0
\* when total_budgeted is 0, and one status record per such budget; with no such
\* budget all totals and the count are 0 and the detail list is empty.
SummaryAggregatesOwnBudgets ==
    SummaryReturned =>
        LET body == response.body
        IN  /\ body.total_budgeted = TotalAmount(RequestedBudgets)
            /\ body.total_spent = TotalSpent(RequestedBudgets)
            /\ body.total_remaining = body.total_budgeted - body.total_spent
            /\ body.total_budgeted = 0 => body.overall_percentage_used = 0
            /\ body.budget_count = Cardinality(RequestedBudgets)
            /\ Len(body.budget_details) = Cardinality(RequestedBudgets)
            /\ \A b \in RequestedBudgets :
                   \E i \in DOMAIN body.budget_details :
                       body.budget_details[i] = calculate_budget_status(b, transactions)
            /\ RequestedBudgets = {} =>
                   /\ body.total_budgeted = 0 /\ body.total_spent = 0
                   /\ body.total_remaining = 0 /\ body.budget_count = 0
                   /\ body.budget_details = <<>>

\* Witness of C6: a summary over two budgets of the requester, both with spending.
TwoBudgetSummaryReturned ==
    /\ SummaryReturned
    /\ response.body.budget_count = 2
    /\ response.body.total_spent > 0
    /\ \A i \in DOMAIN response.body.budget_details :
           response.body.budget_details[i].spent_amount > 0

AlertsReturned == response.op = "alerts"

\* C7: the returned alerts hold exactly one alert for each of the owner's budgets
\* of the month whose alert level is warning or danger and none for any other
\* budget; an alert is limit_exceeded exactly when the budget is over_budget and
\* approaching_limit otherwise.
AlertsMatchBudgets ==
    AlertsReturned =>
        LET alerts == response.body
        IN  /\ \A b \in RequestedBudgets :
                   LET s == calculate_budget_status(b, transactions)
                       mine == {i \in DOMAIN alerts : alerts[i].budget_id = b.id}
                   IN  /\ s.alert_level \in {"warning", "danger"} => Cardinality(mine) = 1
                       /\ s.alert_level = "none" => mine = {}
                       /\ \A i \in mine :
                              alerts[i].alert_type =
                                  IF s.status = "over_budget" THEN "limit_exceeded"
                                  ELSE "approaching_limit"
            /\ \A i \in DOMAIN alerts : \E b \in RequestedBudgets : alerts[i].budget_id = b.id

\* Witness of C7: alerts returned for a requester with one budget over its limit
\* and one near it.
BothAlertTypesReturned ==
    /\ AlertsReturned
    /\ \E i, j \in DOMAIN response.body :
           /\ response.body[i].alert_type = "limit_exceeded"
           /\ response.body[j].alert_type = "approaching_limit"

\* The alert tier of a spending against a budget amount, on the exact percentage.
Tier(spent, amount) ==
    IF amount > 0 /\ spent >= amount THEN "danger"
    ELSE IF amount > 0 /\ 5 * spent >= 4 * amount THEN "warning"
    ELSE "none"

\* C8: an impact check that finds a budget reports old_spent = the spent amount of
\* the budget over the committed transactions, new_spent = old_spent + the
\* candidate's amount, new_remaining = budget amount - new_spent, the alert level
\* of the new percentage by the thresholds of calculate_budget_status (>= 100
\* danger, >= 80 warning, else none) and status_changed exactly when the old and
\* the new alert level differ; 9.00 against a budget of 10.00 with nothing spent
\* gives 90.0 % and none -> warning.
ImpactSimulatesCandidate ==
    ImpactReturned =>
        LET body == response.body
            b == BudgetById(body.budget_id)
            amount == response.request.amount.value
        IN  /\ b.user = response.user
            /\ b.category = response.request.category.value
            /\ body.old_spent = SpentAmount(b, transactions)
            /\ body.new_spent = body.old_spent + amount
            /\ body.new_remaining = b.amount - body.new_spent
            /\ body.old_alert_level = Tier(body.old_spent, b.amount)
            /\ body.new_alert_level = Tier(body.new_spent, b.amount)
            /\ body.status_changed <=> (body.old_alert_level # body.new_alert_level)
            /\ (b.amount = 1000 /\ body.old_spent = 0 /\ amount = 900) =>
                   /\ body.new_percentage = 9000
                   /\ body.status_changed
                   /\ body.old_alert_level = "none"
                   /\ body.new_alert_level = "warning"

\* Witness of C8: a candidate that takes a budget with committed spending from
\* under its limit to exactly 100 %.
ImpactReachesLimit ==
    /\ ImpactReturned
    /\ response.body.old_spent > 0
    /\ response.body.old_alert_level = "none"
    /\ response.body.new_spent = response.body.budget_amount
    /\ response.body.new_alert_level = "danger"
    /\ response.body.status_changed

ServiceReturned == response.op = "check_transaction_impact_on_budget"

\* The candidate has no budget of the caller for its category and the first day
\* of the month of its date.
NoBudgetFor(u, t) ==
    /\ t.date # Nothing
    /\ ~ \E b \in budgets : /\ b.user = u
                            /\ b.category = t.category
                            /\ b.month = Date(t.date[1].year, t.date[1].month, 1)

\* C9: check_transaction_impact_on_budget returns has_impact = false, raising no
\* error, whenever the candidate is not an expense, or has no budget, or lacks
\* its category, date or amount, whether it is a dict or a Transaction object.
NoImpactIsReturnedNotRaised ==
    (/\ ServiceReturned
     /\ \/ response.request.transaction_type # "expense"
        \/ response.request.category = None
        \/ response.request.date = Nothing
        \/ response.request.amount = Nothing
        \/ NoBudgetFor(response.user, response.request)) =>
        /\ response.result.outcome = "return"
        /\ ~ response.result.value.has_impact

InvalidPayload(p) ==
    \/ \E f \in {"category", "amount", "date", "transaction_type"} : p[f] = Absent
    \/ p.date.kind # "ymd"
    \/ p.amount.kind # "decimal"

\* C10: the endpoint answers 400 to every payload that lacks category, amount, date
\* or transaction_type, or whose date is no YYYY-MM-DD date, or whose amount is no
\* decimal number.
InvalidPayloadRejected ==
    (response.op = "check_transaction_impact" /\ InvalidPayload(response.request)) =>
        response.status = 400

(***************************************************************************)
(*                    Properties of category suggestion                     *)
(***************************************************************************)
SuggestReturned == response.op = "suggest_category"

OwnCategories(u) == {c \in categories : CategoryOwner[c] = u}

\* The description holds no keyword of a type of the category, not the name of the
\* category, no word of more than two letters of the name and no word of more than
\* three letters of the description of the category.
NoOverlap(c, description_lower) ==
    /\ \A i \in 1..Len(CATEGORY_KEYWORDS) :
           TypeMatches(CATEGORY_KEYWORDS[i], lower(CategoryName[c])) =>
               KeywordMatches(CATEGORY_KEYWORDS[i], description_lower) = 0
    /\ ~ In(lower(CategoryName[c]), description_lower)
    /\ \A w \in Words(CategoryName[c]) : Len(w) > 2 => ~ In(w, description_lower)
    /\ \A w \in Words(CategoryDescription[c]) : Len(w) > 3 => ~ In(w, description_lower)

\* C11: suggest_category returns None exactly when the description is empty, or the
\* user has no category, or each category of the user scores 0 for the description;
\* and it returns None when the description shares no keyword, name, word of a name
\* or word of a description with any category of the user.
NoneIffNothingScores ==
    SuggestReturned =>
        LET u == response.user
            d == lower(response.request)
        IN  /\ (response.result = None) <=>
                   \/ response.request = <<>>
                   \/ OwnCategories(u) = {}
                   \/ \A c \in OwnCategories(u) : _calculate_category_score(c, d) = 0
            /\ (\A c \in OwnCategories(u) : NoOverlap(c, d)) => response.result = None

\* Witness of C11: None is returned for "zzqx unrelated token" to a user who has
\* the categories Groceries and Transportation.
NoneForUnrelatedToken ==
    /\ SuggestReturned
    /\ response.request = UnrelatedToken
    /\ OwnCategories(response.user) = {"c1", "c2"}
    /\ response.result = None

\* C12: a category that suggest_category returns is one of the user's own; no
\* category of the user scores more; of the user's categories of the same score none
\* matches more keywords; and of those of the same score and keyword count it is the
\* first in the order of the categories.
SuggestionIsBestOwnCategory ==
    (SuggestReturned /\ response.result # None) =>
        LET u == response.user
            d == lower(response.request)
            C == response.result
        IN  /\ C \in OwnCategories(u)
            /\ \A c \in OwnCategories(u) :
                   /\ _calculate_category_score(c, d) <= _calculate_category_score(C, d)
                   /\ _calculate_category_score(c, d) = _calculate_category_score(C, d) =>
                          /\ _count_keyword_matches(c, d) <= _count_keyword_matches(C, d)
                          /\ _count_keyword_matches(c, d) = _count_keyword_matches(C, d) =>
                                 CategoryRank[C] <= CategoryRank[c]

\* Witness of C12: both categories of u1 score 0.8 with one keyword each for
\* "uber market", and Groceries, the first of the two, is returned.
TieReturnsFirst ==
    /\ SuggestReturned
    /\ response.request = UberMarket
    /\ OwnCategories(response.user) = {"c1", "c2"}
    /\ _calculate_category_score("c1", UberMarket) = 8
    /\ _calculate_category_score("c2", UberMarket) = 8
    /\ _count_keyword_matches("c1", UberMarket) = 1
    /\ _count_keyword_matches("c2", UberMarket) = 1
    /\ response.result = "c1"

\* Two descriptions of the same letters, in any case.
SameButCase(a, b) ==
    /\ Len(a) = Len(b)
    /\ \A i \in 1..Len(a) :
           \/ a[i] = b[i]
           \/ \E k \in 1..26 : {a[i], b[i]} = {Letters[k], Capitals[k]}

\* C13: the category returned for a description is the one suggest_category gives
\* the same user for every description that differs from it in letter case only.
SuggestionIgnoresCase ==
    SuggestReturned =>
        \A other \in SuggestDescriptions :
            SameButCase(other, response.request) =>
                suggest_category(response.user, other, categories) = response.result

\* Witness of C13: Groceries is returned for "WALMART GROCERY", as it is for
\* "walmart grocery".
CapitalsSuggestGroceries ==
    /\ SuggestReturned
    /\ response.request = WalmartGroceryCapitals
    /\ response.result = "c1"
    /\ suggest_category(response.user, WalmartGrocery, categories) = "c1"

(***************************************************************************)
(*                  Properties of categories and ownership                  *)
(***************************************************************************)
\* C14: a step that deletes categories leaves every transaction stored, with its
\* fields as they were, but for the category of the transactions of a deleted
\* category, which is None; the number of transactions is the same.
DeletionKeepsTransactions ==
    [][(categories' # categories /\ categories' \subseteq categories) =>
           /\ \A t \in transactions :
                  \E kept \in transactions' :
                      /\ kept.id = t.id
                      /\ kept = [t EXCEPT !.category =
                                    IF t.category \in categories \ categories'
                                    THEN None ELSE t.category]
           /\ Cardinality(transactions') = Cardinality(transactions)
      ]_vars

\* Witness of C14: a category has just been deleted that a transaction referenced;
\* the transaction is stored without a category.
CategoryOfTransactionDeleted ==
    /\ response.op = "category_destroy"
    /\ response.status = 204
    /\ response.transaction_count > 0
    /\ \E t \in transactions : t.category = None /\ t.user = CategoryOwner[response.category]

OwnCategory(t) == t.category # None => CategoryOwner[t.category] = t.user

\* A request that gives the category of another user changes no transaction, and
\* a bulk assignment changes no transaction of another user.
ForeignCategoryRejected ==
    /\ \A u \in Users, data \in CategoriesTransactionData :
           (/\ data.category # None
            /\ CategoryOwner[data.category] # u
            /\ \/ TransactionCreate(u, data)
               \/ \E id \in 1..MaxTransactions : TransactionUpdate(u, id, data)) =>
               /\ transactions' = transactions
               /\ response'.status \in {400, 404}
    /\ \A u \in Users, c \in {"c1", "c3"}, ids \in TransactionIdSets :
           CategoryBulkAssign(u, c, ids) =>
               /\ CategoryOwner[c] # u =>
                      (transactions' = transactions /\ response'.status = 404)
               /\ \A t \in transactions : t.user # u => t \in transactions'

\* C16: the category of every stored transaction that has one belongs to the user
\* of the transaction; a creation, an update or a bulk assignment that gives the
\* category of another user is rejected and changes no transaction; and a bulk
\* assignment changes the transactions of the requester only.
TransactionsKeepOwnCategories ==
    /\ [](\A t \in transactions : OwnCategory(t))
    /\ [][ForeignCategoryRejected]_vars

\* Witness of C16: a bulk assignment for the ids of a transaction of the requester
\* and of one of the other user has changed the first one only.
BulkAssignedOwnOnly ==
    /\ response.op = "bulk_assign"
    /\ response.status = 200
    /\ response.updated_count = 1
    /\ \E t \in transactions, other \in transactions :
           /\ t.user = response.user /\ t.category # None
           /\ other.user # response.user /\ other.category = None
           /\ {t.id, other.id} \subseteq response.ids

SameKey(a, b) == a.user = b.user /\ a.category = b.category /\ a.month = b.month

\* A creation for the user, category and month of a stored budget is answered 400
\* and changes no budget.
DuplicateCreateRejected ==
    \A u \in Users, data \in BudgetsData :
        (/\ BudgetCreate(u, data)
         /\ \E b \in budgets : b.user = u /\ b.category = data.category /\ b.month = data.month) =>
            /\ budgets' = budgets
            /\ response'.status = 400

\* C15: no two stored budgets have the same user, category and month, whatever
\* budgets are created, replaced, changed in part and deleted; and a creation that
\* would repeat those of a stored budget is rejected and changes no budget.
BudgetsStayUnique ==
    /\ [](\A a \in budgets, b \in budgets : SameKey(a, b) => a = b)
    /\ [][DuplicateCreateRejected]_vars

\* Witness of C15: a change of the month alone (or of the category alone) of a
\* budget, to those of another stored budget, has failed on the constraint of the
\* database, and both budgets are stored as they were.
PartialUpdateHitConstraint ==
    /\ response.op = "budget_partial_update"
    /\ response.status = 500
    /\ \E a \in budgets, b \in budgets : a # b /\ a.user = b.user

\* The users of the transactions, budgets and categories that a step creates,
\* changes or deletes.
ChangedOwners ==
    {t.user : t \in (transactions \ transactions') \cup (transactions' \ transactions)}
    \cup {b.user : b \in (budgets \ budgets') \cup (budgets' \ budgets)}
    \cup {CategoryOwner[c] : c \in (categories \ categories') \cup (categories' \ categories)}

\* What the budget services give the user a in a stored state.
BudgetResultsOf(a, txs, bs) ==
    [statuses |-> {calculate_budget_status(b, txs) : b \in {x \in bs : x.user = a}},
     alerts |-> [m \in Months |-> get_budget_alerts(a, m, bs, txs)],
     summary |-> [m \in Months |-> get_monthly_budget_summary(a, m, bs, txs)]]

\* C17: a step that creates, changes or deletes transactions, categories or budgets
\* of other users only leaves what calculate_budget_status, get_budget_alerts,
\* get_monthly_budget_summary, suggest_category (for "uber market") and
\* suggest_category_with_history (for "zzqx") give a user as it was.
OwnerIsolation ==
    [][\A a \in Users :
           a \notin ChangedOwners =>
               /\ \/ <<transactions', budgets'>> = <<transactions, budgets>>
                  \/ BudgetResultsOf(a, transactions', budgets')
                         = BudgetResultsOf(a, transactions, budgets)
               /\ \/ categories' = categories
                  \/ suggest_category(a, UberMarket, categories')
                         = suggest_category(a, UberMarket, categories)
               /\ \/ <<categories', transactions'>> = <<categories, transactions>>
                  \/ suggest_category_with_history(a, Unrelated, categories', transactions')
                         = suggest_category_with_history(a, Unrelated, categories,
                                                         transactions)
      ]_vars

\* Witness of C17: u2 has just created a transaction with a category, while u1 has
\* a budget with spending and a transaction that the history gives a suggestion
\* from.
OtherUserWroteBesideBudget ==
    /\ response = Status("transaction_create", 201)
    /\ \E t \in transactions :
           t.id = nextTransactionId - 1 /\ t.user = "u2" /\ t.category = "c3"
    /\ \E b \in budgets : b.user = "u1" /\ SpentAmount(b, transactions) > 0
    /\ suggest_category_with_history("u1", Unrelated, categories, transactions) = "c1"

\* The requests r and s ask for a budget of the same owner, category and month.
SameBudgetKey(r, s) ==
    /\ requests[r].user = requests[s].user
    /\ requests[r].data.category = requests[s].data.category
    /\ requests[r].data.month = requests[s].data.month

Answered(r) == requests[r].pc = "done"

Stored(r) ==
    \E b \in budgets : /\ b.id = requests[r].id
                       /\ b.user = requests[r].user
                       /\ b.category = requests[r].data.category
                       /\ b.month = requests[r].data.month

\* The step in which the second of two such requests is answered: r went past the
\* existence check of the serializer before s, already answered, inserted.
RaceResolved(r, s) ==
    /\ r # s
    /\ requests[r].pc = "validated"
    /\ Answered(s)
    /\ SameBudgetKey(r, s)
    /\ requests[s].status # 400
    /\ Answered(r)'

RaceOutcome ==
    \A r \in RequestIds, s \in RequestIds :
        RaceResolved(r, s) =>
            /\ Cardinality({b \in budgets' : /\ b.user = requests[r].user
                                             /\ b.category = requests[r].data.category
                                             /\ b.month = requests[r].data.month}) <= 1
            /\ ~ (requests'[r].status = 201 /\ requests'[s].status = 201)
            /\ requests'[r].status >= 400 \/ requests'[s].status >= 400
            /\ requests'[r].status = 201 => Stored(r)'
            /\ requests'[s].status = 201 => Stored(s)'

\* C18: when two budget creation requests for the same owner, category and month
\* both pass the existence check of the serializer before either inserts, at most one
\* budget of that key is stored, the requests never both report success, the request
\* that does not succeed is answered an error, and a request that reports success has
\* its budget stored.
ConcurrentCreateReportsConflict ==
    /\ [](\A r \in RequestIds : (Answered(r) /\ requests[r].status = 201) => Stored(r))
    /\ [][RaceOutcome]_vars

\* Witness of C18: both requests went past the existence check together; the first
\* was answered 201 and its budget is stored, the second 500, and one budget of the
\* key is stored.
RaceLoserAnswered500 ==
    /\ Answered("r1") /\ Answered("r2")
    /\ SameBudgetKey("r1", "r2")
    /\ requests["r1"].status = 201
    /\ requests["r2"].status = 500
    /\ Stored("r1")
    /\ response.status = 500

ServiceOps ==
    {"calculate_budget_status", "get_budget_alerts", "get_monthly_budget_summary",
     "check_transaction_impact_on_budget", "suggest_category",
     "suggest_category_with_history", "get_category_suggestions_for_user"}

\* The step is a call of one of the seven services.
ServiceCalled == response'.op \in ServiceOps

\* The step repeats the call that the latest response answers: the same service,
\* user and arguments, and no write in between.
SameCallAgain ==
    /\ ServiceCalled
    /\ response.op = response'.op
    /\ response.user = response'.user
    /\ response.request = response'.request

\* The month of the clock at the call, for the calls that take it.
ClockMonth(r) ==
    IF r.op \in {"get_budget_alerts", "get_monthly_budget_summary"} /\ r.request = Nothing
    THEN <<r.today.year, r.today.month>>
    ELSE <<>>

ServicesWriteNothing ==
    ServiceCalled => UNCHANGED <<categories, transactions, budgets, users, nextTransactionId,
                                 nextBudgetId>>

EmailChangeCompleted == response'.op = "complete_email_change"

\* The token of the call verifies for its user and new email before the call.
TokenVerifies ==
    verify_email_token(response'.token, users[response'.user], response'.new_email)

RejectedChangesNothing ==
    /\ response'.result = Returned(FALSE)
    /\ users'[response'.user] = users[response'.user]
    /\ outbox' = outbox

AcceptedChangesEmail ==
    /\ response'.result = Returned(TRUE)
    /\ users'[response'.user].email = response'.new_email
    /\ users'[response'.user].username = response'.new_email
    /\ users'[response'.user].is_email_verified
    /\ outbox' = Append(outbox, [to |-> users[response'.user].email,
                                 subject |-> "email_change_notification",
                                 user |-> response'.user,
                                 changed_to |-> response'.new_email])

\* C20: complete_email_change with a token that does not verify for the user and the
\* new email returns False, leaves email, username and is_email_verified as they were
\* and sends no notification; with a token that verifies it returns True, sets email
\* and username to the new email, sets is_email_verified and sends exactly one
\* notification to the previous email.
CompleteEmailChangeContract ==
    [][EmailChangeCompleted =>
           IF TokenVerifies THEN AcceptedChangesEmail ELSE RejectedChangesNothing]_vars

\* Witness of C20: u1 called complete_email_change for the email of u2 with the token
\* generate_verification_token gives for it, and the call raised IntegrityError.
EmailChangeToTakenAddressRaised ==
    /\ response.op = "complete_email_change"
    /\ response.user = "u1"
    /\ response.new_email = Email["u2"]
    /\ response.token = generate_verification_token(users["u1"], Email["u2"])
    /\ users["u2"].email = Email["u2"]
    /\ response.result = Raised("IntegrityError")

ScoreReturned == response.op = "_calculate_category_score"

\* K in tenths: the classes of the taxonomy from the i-th on that the name is aligned
\* with and that have k >= 1 keyword matches give min(1.0, 0.6 + 0.2 * k) each.
RECURSIVE ClassContributions(_, _, _)
ClassContributions(i, category_name_lower, description_lower) ==
    IF i > Len(CATEGORY_KEYWORDS) THEN 0
    ELSE (IF /\ TypeMatches(CATEGORY_KEYWORDS[i], category_name_lower)
             /\ KeywordMatches(CATEGORY_KEYWORDS[i], description_lower) >= 1
          THEN Min(10, 6 + 2 * KeywordMatches(CATEGORY_KEYWORDS[i], description_lower))
          ELSE 0)
         + ClassContributions(i + 1, category_name_lower, description_lower)

\* The number of the words of text longer than n characters found in the description.
WordsFound(text, n, description_lower) ==
    Cardinality({i \in 1..Len(split(lower(text))) :
                    /\ Len(split(lower(text))[i]) > n
                    /\ In(split(lower(text))[i], description_lower)})

\* N + K + W + D in tenths.
UncappedScore(category, description_lower) ==
    (IF In(lower(category.name), description_lower) THEN 10 ELSE 0)
    + ClassContributions(1, lower(category.name), description_lower)
    + 5 * WordsFound(category.name, 2, description_lower)
    + 3 * WordsFound(category.description, 3, description_lower)

\* C21: the score of _calculate_category_score is min(1.0, N + K + W + D), with N 1.0
\* when the name of the category is in the description, K the sum of
\* min(1.0, 0.6 + 0.2 * k) over the aligned classes with k >= 1 keyword matches, W 0.5
\* for each word of the name longer than 2 characters found in the description and D
\* 0.3 for each word of the category description longer than 3 characters found in
\* it; the score is within [0, 1] (scores are in tenths).
ScoreIsCappedSum ==
    ScoreReturned =>
        /\ response.result = Min(10, UncappedScore(response.category, response.request))
        /\ response.result >= 0
        /\ response.result <= 10

\* Witness of C21: a category aligned with two classes that both match keywords, so
\* that the running total was capped between the two, scored 1.0.
TwoClassesCapped ==
    /\ ScoreReturned
    /\ ClassContributions(1, lower(response.category.name), response.request) > 10
    /\ response.result = 10

WithHistoryReturned == response.op = "suggest_category_with_history"

\* C22: when suggest_category returns a category for a user and a description,
\* suggest_category_with_history returns that category, whatever the transactions of
\* the user are.
KeywordSuggestionWins ==
    WithHistoryReturned =>
        LET keyword_suggestion == suggest_category(response.user, response.request, categories)
        IN  keyword_suggestion # None => response.result = keyword_suggestion

\* Witness of C22: Transportation was returned for "uber acme" by its keyword, while
\* the only similar transaction of the user is one of Groceries.
KeywordBeatsHistory ==
    /\ WithHistoryReturned
    /\ response.user = "u1"
    /\ response.request = UberAcme
    /\ response.result = "c2"
    /\ \E t \in transactions : t.user = "u1" /\ t.category = "c1" /\ t.description = AcmeCorp
    /\ \A t \in transactions : t.category \in {"c1", None}

\* The categorized transactions of u in the category c whose description has a
\* similarity above 0.3 to the description.
SimilarIn(u, c, description) ==
    {t \in transactions :
        /\ t.user = u
        /\ t.category = c
        /\ LET similarity ==
                   _calculate_description_similarity(lower(description), lower(t.description))
           IN  10 * similarity.num > 3 * similarity.den}

\* The sum of the similarities of the transactions S to the description.
RECURSIVE AccumulatedScore(_, _)
AccumulatedScore(S, description) ==
    IF S = {} THEN [num |-> 0, den |-> 1]
    ELSE LET t == CHOOSE x \in S : TRUE
         IN  FractionAdd(_calculate_description_similarity(lower(description),
                                                           lower(t.description)),
                         AccumulatedScore(S \ {t}, description))

\* C23: when suggest_category returns None, suggest_category_with_history returns None
\* if and only if no categorized transaction of the user has a similarity above 0.3 to
\* the description; otherwise it returns a category with such a transaction whose sum
\* of the similarities above 0.3 is not less than that of any other category.
HistorySuggestionIsMaximal ==
    (WithHistoryReturned
     /\ suggest_category(response.user, response.request, categories) = None) =>
        LET u == response.user
            d == response.request
            scored == {c \in CategoryPool : SimilarIn(u, c, d) # {}}
        IN  IF scored = {} THEN response.result = None
            ELSE /\ response.result \in scored
                 /\ \A c \in scored :
                        ~ FractionLess(AccumulatedScore(SimilarIn(u, response.result, d), d),
                                       AccumulatedScore(SimilarIn(u, c, d), d))

\* Witness of C23: for "acme corp" Transportation was returned, with two transactions
\* of similarity 2/3, although a transaction of Groceries has the similarity 1.
SumBeatsGreatestSimilarity ==
    /\ WithHistoryReturned
    /\ response.user = "u1"
    /\ response.request = AcmeCorp
    /\ response.result = "c2"
    /\ Cardinality(SimilarIn("u1", "c2", AcmeCorp)) = 2
    /\ \E t \in transactions : t.category = "c1" /\ t.description = AcmeCorp

\* C24: the similarity suggest_category_with_history computes between the description
\* and the description of a categorized transaction of the user is the fraction of the
\* shared words over all words of the two lower-cased descriptions, the punctuation
\* ignored.
SimilarityIgnoresPunctuation ==
    (WithHistoryReturned
     /\ suggest_category(response.user, response.request, categories) = None) =>
        \A t \in SimilarTransactions(response.user, transactions) :
            LET computed == _calculate_description_similarity(lower(response.request),
                                                              lower(t.description))
                stated == BudgetTrackingDescriptionSimilarity(lower(response.request),
                                                              lower(t.description))
            IN  computed.num * stated.den = stated.num * computed.den

\* Witness of C24: for "acme corp" and the only categorized transaction of the user,
\* "acme, corp" of Groceries, the computed similarity is 1/3; Groceries was returned.
CommaMakesAnotherWord ==
    /\ WithHistoryReturned
    /\ response.user = "u1"
    /\ response.request = AcmeCorp
    /\ response.result = "c1"
    /\ SimilarTransactions("u1", transactions) # {}
    /\ \A t \in SimilarTransactions("u1", transactions) :
           /\ t.description = AcmeCommaCorp
           /\ _calculate_description_similarity(AcmeCorp, t.description) = [num |-> 1, den |-> 3]

SuggestionsReturned == response.op = "get_category_suggestions_for_user"

\* The transactions of u without a category.
Uncategorized(u) == {t \in transactions : t.user = u /\ t.category = None}

\* C25: get_category_suggestions_for_user(u, limit) with limit >= 0 returns at most
\* limit suggestions, for distinct uncategorized transactions of u, each with the
\* category suggest_category_with_history returns for its description, the later date
\* first; they are among the 2 * limit uncategorized transactions of the latest dates,
\* and one of these that has a suggestion is left out only when limit suggestions of
\* dates not earlier than its date have been returned.
SuggestionsWithinLimit ==
    SuggestionsReturned =>
        LET u == response.user
            limit == response.request
            result == response.result
            Returned_ids == {result[i].transaction_id : i \in 1..Len(result)}
            Suggested(t) ==
                suggest_category_with_history(u, t.description, categories, transactions)
        IN  /\ Len(result) <= limit
            /\ Cardinality(Returned_ids) = Len(result)
            /\ \A i \in 1..Len(result) :
                   \E t \in Uncategorized(u) :
                       /\ t.id = result[i].transaction_id
                       /\ Suggested(t) # None
                       /\ Suggested(t) = result[i].suggested_category.id
            /\ \A i \in 1..Len(result), j \in 1..Len(result) :
                   i < j => DateLE(result[j].transaction_date, result[i].transaction_date)
            /\ \E examined \in SUBSET Uncategorized(u) :
                   /\ Cardinality(examined) = Min(Cardinality(Uncategorized(u)), 2 * limit)
                   /\ \A a \in examined, b \in Uncategorized(u) \ examined :
                          DateLE(b.date, a.date)
                   /\ \A id \in Returned_ids : \E t \in examined : t.id = id
                   /\ \A t \in examined :
                          (Suggested(t) # None /\ t.id \notin Returned_ids) =>
                              /\ Len(result) = limit
                              /\ \A i \in 1..Len(result) :
                                     DateLE(t.date, result[i].transaction_date)

\* Witness of C25: with the limit 1 nothing was suggested to u1, whose third
\* uncategorized transaction by date has a suggestion.
ThirdTransactionNotExamined ==
    /\ SuggestionsReturned
    /\ response.user = "u1"
    /\ response.request = 1
    /\ response.result = <<>>
    /\ Cardinality(Uncategorized("u1")) = 3
    /\ \E t \in Uncategorized("u1") : t.description = UberAcme

\* check_transaction_impact_on_budget returned a result with has_impact = True.
ImpactPredicted ==
    /\ ServiceReturned
    /\ response.result.outcome = "return"
    /\ response.result.value.has_impact

\* The step stores the candidate of the last impact check: one more transaction, of
\* the user, the category, the date and the amount of the candidate, an expense.
CandidateCommitted ==
    \E row \in transactions' \ transactions :
        /\ transactions' = transactions \cup {row}
        /\ row.user = response.user
        /\ row.category = response.request.category
        /\ row.transaction_type = "expense"
        /\ Some(row.date) = response.request.date
        /\ Some(row.amount) = response.request.amount

\* C26: when check_transaction_impact_on_budget has reported an impact for a candidate
\* and the next write stores the candidate, calculate_budget_status of the budget
\* returns the reported new_spent, new_remaining, new_percentage and new_alert_level.
PredictionMatchesOutcome ==
    [][(ImpactPredicted /\ CandidateCommitted /\ budgets' = budgets) =>
           LET predicted == response.result.value
               outcome == calculate_budget_status(BudgetById(predicted.budget_id),
                                                  transactions')
           IN  /\ outcome.spent_amount = predicted.new_spent
               /\ outcome.remaining_amount = predicted.new_remaining
               /\ outcome.percentage_used = predicted.new_percentage
               /\ outcome.alert_level = predicted.new_alert_level]_vars

\* Witness of C26: an impact is reported for a candidate of 15 February on a budget
\* with committed spending, and the candidate can be created next.
PredictionBeforeCommit ==
    /\ ImpactPredicted
    /\ response.result.value.old_spent > 0
    /\ response.result.value.new_alert_level # response.result.value.old_alert_level
    /\ nextTransactionId <= MaxTransactions
    /\ TransactionDataValid(response.user,
           [category |-> response.request.category, date |-> response.request.date[1],
            amount |-> response.request.amount[1]])

\* The order of the alert levels: none < warning < danger.
TierRank(alert_level) ==
    CASE alert_level = "none" -> 0 [] alert_level = "warning" -> 1 [] alert_level = "danger" -> 2

\* C27: an impact reported by the endpoint has new_spent >= old_spent and a new alert
\* level that is not below the old one, whatever the amount of the payload.
ImpactNeverLowersSpending ==
    ImpactReturned =>
        /\ response.body.new_spent >= response.body.old_spent
        /\ TierRank(response.body.new_alert_level) >= TierRank(response.body.old_alert_level)

\* Witness of C27: the endpoint accepted an amount of -1.00 against 8.01 spent of a
\* budget of 10.00 and reported new_spent 7.01 and the alert level warning -> none.
NegativeCandidateLowersTier ==
    /\ ImpactReturned
    /\ response.request.amount.value = -100
    /\ response.body.old_spent = 801
    /\ response.body.new_spent = 701
    /\ response.body.old_alert_level = "warning"
    /\ response.body.new_alert_level = "none"

\* C28: for every user and month, the monthly summary counts every budget once as
\* over, near or under its limit, budget_count is the number of budget_details, the
\* alerts are as many as the budgets over and near the limit, and the limit_exceeded
\* alerts as many as the budgets over the limit.
SummaryAndAlertsAgree ==
    \A u \in Users, m \in Months :
        LET summary == get_monthly_budget_summary(u, m, budgets, transactions)
            alerts == get_budget_alerts(u, m, budgets, transactions)
        IN  /\ summary.budgets_over_limit + summary.budgets_near_limit
                   + summary.budgets_under_limit = summary.budget_count
            /\ summary.budget_count = Len(summary.budget_details)
            /\ Len(alerts) = summary.budgets_over_limit + summary.budgets_near_limit
            /\ Cardinality({i \in 1..Len(alerts) : alerts[i].alert_type = "limit_exceeded"})
                   = summary.budgets_over_limit

\* Witness of C28: the summary of u1 for February was returned with one budget over
\* and one near the limit, and the alerts of the state are two.
SummaryWithOverAndNear ==
    /\ SummaryReturned
    /\ response.user = "u1"
    /\ response.body = get_monthly_budget_summary("u1", February, budgets, transactions)
    /\ response.body.budgets_over_limit = 1
    /\ response.body.budgets_near_limit = 1
    /\ Len(get_budget_alerts("u1", February, budgets, transactions)) = 2

\* The token of the completed email change the notification m tells of.
TokenOfChange(m) ==
    generate_verification_token([id |-> UserId[m.user], email |-> m.to], m.changed_to)

\* The latest response is to a call of verify_email_token, or to a call of
\* complete_email_change made after the i-th mail was sent.
CalledAfterMail(i) ==
    \/ response.op = "verify_email_token"
    \/ response.op = "complete_email_change" /\ i < Len(outbox)

\* C29: once complete_email_change has succeeded for a user with a token and a new
\* email other than the previous one (the notification of the change is in the
\* outbox), every later call of verify_email_token or complete_email_change with this
\* token for this user returns False, and the token verifies for no other user and
\* no other new email.
TokenIsSingleUse ==
    \A i \in 1..Len(outbox) :
        (outbox[i].subject = "email_change_notification" /\ outbox[i].changed_to # outbox[i].to)
        => /\ (/\ CalledAfterMail(i)
               /\ response.user = outbox[i].user
               /\ response.token = TokenOfChange(outbox[i]))
              => response.result = Returned(FALSE)
           /\ \A u \in Users, new_email \in ReplayAddresses \cup {Email["u2"]} :
                  (u # outbox[i].user \/ new_email # outbox[i].changed_to)
                  => ~ verify_email_token(TokenOfChange(outbox[i]), users[u], new_email)

\* Witness of C29: u1 changed a@x to c@x and c@x back to a@x; verify_email_token
\* with the token of the first change then returned True for u1 and c@x.
UsedTokenVerifiesAgain ==
    /\ Len(outbox) = 2
    /\ outbox[1] = [to |-> Email["u1"], subject |-> "email_change_notification",
                    user |-> "u1", changed_to |-> <<"c", "@", "x">>]
    /\ outbox[2].user = "u1"
    /\ outbox[2].changed_to = Email["u1"]
    /\ response.op = "verify_email_token"
    /\ response.user = "u1"
    /\ response.token = TokenOfChange(outbox[1])
    /\ response.result = Returned(TRUE)

\* C30: a password changes only in a password-reset-confirm whose token is the token
\* of a reset mail sent before for the user whose password changes.
PasswordChangedOnlyByMailedToken ==
    [][\A u \in Users :
           users'[u].password # users[u].password =>
               /\ response'.op = "password_reset_confirm"
               /\ \E i \in 1..Len(outbox) :
                      /\ outbox[i].subject = "password_reset"
                      /\ outbox[i].user = u
                      /\ outbox[i].token = response'.token]_vars

\* Witness of C30: the password of u1 was set by a password-reset-confirm with the
\* base64 of the key 1, and no reset mail is in the outbox.
PasswordSetWithoutResetMail ==
    /\ response.op = "password_reset_confirm"
    /\ response.status = 200
    /\ response.token = urlsafe_base64_encode(Str(1))
    /\ users["u1"].password # "initial"
    /\ users["u2"].password = "initial"
    /\ outbox = <<>>

====
